---------------------------- MODULE Spec2Model ----------------------------
(***************************************************************************)
(* Model of the encrypted-evaluation server and client (package eeval).    *)
(*                                                                         *)
(*   - the registry of contexts and datasets (eeval/server/storage.py),    *)
(*     its REST handlers (eeval/server/main.py) and the client calls that  *)
(*     reach them (eeval/client/client.py);                                *)
(*   - the model registry (eeval/server/models/__init__.py).               *)
(*                                                                         *)
(* Python values are modelled as follows:                                  *)
(*   bytes        a sequence of numbers 0..255                             *)
(*   str (base64) a sequence of sextets 0..63, with PAD for the sign '='   *)
(*   an optional  None is <<>>, a value v is <<v>>                          *)
(*   a raise      the field raised of a result names the exception class,  *)
(*                "None" when the call returned                            *)
(***************************************************************************)
EXTENDS Integers, Sequences, FiniteSets, TLC

VARIABLES
    CONTEXTS,       \* storage.CONTEXTS:  ctx_id -> context (bytes)
    DATASETS,       \* storage.DATASETS:  dataset_id -> <<ctx_id, X, Y, batch_size>>
    issued,         \* history: the <<kind, id>> the registrations have returned
    nregs,          \* history: the number of registrations performed
    call,           \* the client call in progress (Client.register_dataset)
    resp,           \* the last request and what its caller observed
    _MODEL_DEFS,    \* models._MODEL_DEFS: model_name -> model_def
    _MODELS_CACHE,  \* models._MODELS_CACHE: model_name -> (version -> instance or None)
    _DEFAULT_DATA_DIR, \* models._DEFAULT_DATA_DIR
    loads,          \* history: the parameter files _load_parameters opened, in order
    mresp,          \* the last model-registry call and its outcome
    threads         \* the calls of get_model in progress, one per thread

vars == <<CONTEXTS, DATASETS, issued, nregs, call, resp, _MODEL_DEFS, _MODELS_CACHE,
          _DEFAULT_DATA_DIR, loads, mresp, threads>>

registryVars == <<CONTEXTS, DATASETS, issued, nregs, call, resp>>
modelVars == <<_MODEL_DEFS, _MODELS_CACHE, _DEFAULT_DATA_DIR, loads, mresp, threads>>

----------------------------------------------------------------------------
(* Bounds of the model.                                                    *)

\* the registrations (contexts and datasets together) a behaviour performs
MaxRegs == 2
\* the parameter loads a behaviour performs
MaxLoads == 2
\* the threads that run get_model at the same time
NThreads == 2

----------------------------------------------------------------------------
(* Python helpers.                                                         *)

None == <<>>
Some(v) == <<v>>

\* d[k] = v on a dict
DictSet(d, k, v) == [x \in DOMAIN d \cup {k} |-> IF x = k THEN v ELSE d[x]]

EmptyDict == <<>>

Min(a, b) == IF a <= b THEN a ELSE b

\* zip(X, Y) keeps the pairs up to the shorter list
zip(X, Y) == [i \in 1..Min(Len(X), Len(Y)) |-> <<X[i], Y[i]>>]

----------------------------------------------------------------------------
(* base64, as binascii computes it: 3 bytes make 4 sextets, '=' pads.       *)

PAD == 64

RECURSIVE b64encode(_)
b64encode(s) ==
    IF Len(s) = 0 THEN <<>>
    ELSE IF Len(s) = 1 THEN
        <<s[1] \div 4, (s[1] % 4) * 16, PAD, PAD>>
    ELSE IF Len(s) = 2 THEN
        <<s[1] \div 4, (s[1] % 4) * 16 + (s[2] \div 16), (s[2] % 16) * 4, PAD>>
    ELSE
        <<s[1] \div 4, (s[1] % 4) * 16 + (s[2] \div 16),
          (s[2] % 16) * 4 + (s[3] \div 64), s[3] % 64>>
        \o b64encode(SubSeq(s, 4, Len(s)))

\* The bytes of one group of 4 characters; pads are legal at its end only.
b64quad(q) ==
    IF q[1] = PAD \/ q[2] = PAD THEN None
    ELSE IF q[3] = PAD THEN
        IF q[4] = PAD THEN Some(<<q[1] * 4 + (q[2] \div 16)>>) ELSE None
    ELSE IF q[4] = PAD THEN
        Some(<<q[1] * 4 + (q[2] \div 16), (q[2] % 16) * 16 + (q[3] \div 4)>>)
    ELSE
        Some(<<q[1] * 4 + (q[2] \div 16), (q[2] % 16) * 16 + (q[3] \div 4),
               (q[3] % 4) * 64 + q[4]>>)

\* b64decode(str): [raised |-> "Error"] on incorrect padding, else the bytes.
\* Defined for strings over the base64 alphabet whose pads, if any, end the
\* string; the requests of this model hold no other strings.
RECURSIVE b64decode(_)
b64decode(s) ==
    IF Len(s) = 0 THEN [raised |-> "None", val |-> <<>>]
    ELSE IF Len(s) < 4 THEN [raised |-> "Error", val |-> <<>>]
    ELSE
        LET head == b64quad(SubSeq(s, 1, 4))
            tail == b64decode(SubSeq(s, 5, Len(s)))
        IN  IF head = None \/ tail.raised # "None"
               \/ (Len(s) > 4 /\ s[4] = PAD)
            THEN [raised |-> "Error", val |-> <<>>]
            ELSE [raised |-> "None", val |-> head[1] \o tail.val]

----------------------------------------------------------------------------
(* eeval/server/utils.py: identifiers.                                     *)

TOKEN_LENGTH == 32

HexDigits == <<"0", "1", "2", "3", "4", "5", "6", "7",
               "8", "9", "a", "b", "c", "d", "e", "f">>

\* hexlify(bytes).decode(): two hexadecimal digits per byte
hexlify(bs) ==
    [i \in 1..(2 * Len(bs)) |->
        IF i % 2 = 1 THEN HexDigits[(bs[(i + 1) \div 2] \div 16) + 1]
                     ELSE HexDigits[(bs[i \div 2] % 16) + 1]]

\* the outcomes of [randint(0, 255) for i in range(TOKEN_LENGTH)] the model
\* samples: every byte 0 but the last, which is one of the two ends of the
\* range
RandBytes ==
    {[i \in 1..TOKEN_LENGTH |-> IF i = TOKEN_LENGTH THEN b ELSE 0] : b \in {0, 255}}

\* get_random_id(): the identifiers one call can return.  Nothing in the
\* code compares the token with the identifiers already in use.
get_random_id == {hexlify(rb) : rb \in RandBytes}


----------------------------------------------------------------------------
(* eeval/server/storage.py.  Each operator returns what the function       *)
(* returns or raises, and the dictionaries as the function leaves them.    *)

\* Mutant: the assignment rebinds CONTEXTS to a dictionary of this entry alone.
save_context_replacing(context, rid) ==
    [ret |-> rid, CONTEXTS |-> DictSet(EmptyDict, rid, context)]

\* Mutant: the entry is stored under one fixed key, whatever the token.
save_context_fixedKey(context, rid) ==
    [ret |-> rid,
     CONTEXTS |-> DictSet(CONTEXTS, hexlify([i \in 1..TOKEN_LENGTH |-> 0]), context)]

\* save_context(context), rid being what its call of get_random_id returned
save_context(context, rid) ==
    [ret |-> rid, CONTEXTS |-> DictSet(CONTEXTS, rid, context)]

\* Mutant: CONTEXTS.get(ctx_id, b"") in place of CONTEXTS[ctx_id].
get_raw_context_default(ctx_id) ==
    IF ctx_id \in DOMAIN CONTEXTS
    THEN [raised |-> "None", val |-> Some(CONTEXTS[ctx_id])]
    ELSE [raised |-> "None", val |-> Some(<<>>)]

\* get_raw_context(ctx_id): CONTEXTS[ctx_id], KeyError for an absent key
get_raw_context(ctx_id) ==
    IF ctx_id \in DOMAIN CONTEXTS
    THEN [raised |-> "None", val |-> Some(CONTEXTS[ctx_id])]
    ELSE [raised |-> "KeyError", val |-> None]

\* Mutant: X and Y change places in the stored list.
save_dataset_swapped(ctx_id, X, Y, batch_size, rid) ==
    [ret |-> rid, DATASETS |-> DictSet(DATASETS, rid, <<ctx_id, Y, X, batch_size>>)]

\* save_dataset(ctx_id, X, Y, batch_size), rid from get_random_id
save_dataset(ctx_id, X, Y, batch_size, rid) ==
    [ret |-> rid, DATASETS |-> DictSet(DATASETS, rid, <<ctx_id, X, Y, batch_size>>)]

\* get_raw_dataset(dataset_id): the stored 4 values, KeyError for an absent key
get_raw_dataset(dataset_id) ==
    IF dataset_id \in DOMAIN DATASETS
    THEN [raised |-> "None", val |-> Some(DATASETS[dataset_id])]
    ELSE [raised |-> "KeyError", val |-> None]

----------------------------------------------------------------------------
(* eeval/server/main.py: the handlers of the registry routes.  A handler   *)
(* has no await in its body, so it runs from request to response without   *)
(* another handler in between.  Its result: the response (status_code,     *)
(* json), the two dictionaries as it leaves them, and reg, the             *)
(* registration it performed if any.                                       *)

answer_418(msg) == [status_code |-> 418, json |-> [message |-> <<"Oops! Server says", msg>>]]

answer_404(msg) ==
    [status_code |-> 404, json |-> [message |-> <<"Resource not found. Server says", msg>>]]

\* a response together with the state the handler leaves
Handled(response, contexts, datasets, reg) ==
    [status_code |-> response.status_code, json |-> response.json,
     CONTEXTS |-> contexts, DATASETS |-> datasets, reg |-> reg]

\* class Dataset(BaseModel): the request body pydantic accepts.  batch_size
\* defaults to 1 and must be an int; `min=1` is no constraint Field knows
\* (its constraints are ge, gt, le, lt), so it is kept as schema metadata
\* and any int passes.
Dataset(body) ==
    LET batch_size == IF body.batch_size = None THEN [type |-> "int", v |-> 1]
                      ELSE body.batch_size[1]
    IN  IF batch_size.type # "int"
        THEN [raised |-> "ValidationError", data |-> None]
        ELSE [raised |-> "None",
              data |-> Some([context_id |-> body.context_id, X |-> body.X,
                             Y |-> body.Y, batch_size |-> batch_size.v])]

\* the b64decode of every pair of zip(X, Y): the two decoded lists, or the
\* first failure
decode_pairs(X, Y) ==
    LET pairs == zip(X, Y)
        bad == {i \in DOMAIN pairs :
                   b64decode(pairs[i][1]).raised # "None"
                   \/ b64decode(pairs[i][2]).raised # "None"}
    IN  IF bad # {}
        THEN [raised |-> "Error", enc_X |-> <<>>, enc_Y |-> <<>>]
        ELSE [raised |-> "None",
              enc_X |-> [i \in DOMAIN pairs |-> b64decode(pairs[i][1]).val],
              enc_Y |-> [i \in DOMAIN pairs |-> b64decode(pairs[i][2]).val]]

\* POST /contexts/register
register_context(data, rid) ==
    LET context == b64decode(data.context)
    IN  IF context.raised # "None"
        THEN Handled(answer_418("bad base64 strings"), CONTEXTS, DATASETS, None)
        ELSE LET saved == save_context(context.val, rid)
             IN  Handled([status_code |-> 200, json |-> [context_id |-> saved.ret]],
                         saved.CONTEXTS, DATASETS,
                         Some([kind |-> "context", id |-> saved.ret, val |-> context.val]))

\* GET /contexts/
get_context(context_id) ==
    LET ctx == get_raw_context(context_id)
    IN  IF ctx.raised = "KeyError"
        THEN Handled(answer_404(<<"No context with id", context_id>>),
                     CONTEXTS, DATASETS, None)
        ELSE Handled([status_code |-> 200, json |-> [context |-> b64encode(ctx.val[1])]],
                     CONTEXTS, DATASETS, None)

\* Mutant: the handler looks the context id up and answers 404 without one.
register_dataset_checked(body, rid) ==
    LET parsed == Dataset(body)
    IN  IF parsed.raised # "None"
        THEN Handled([status_code |-> 422, json |-> [detail |-> "validation error"]],
                     CONTEXTS, DATASETS, None)
        ELSE
        LET data == parsed.data[1]
            dec == decode_pairs(data.X, data.Y)
        IN  IF dec.raised # "None"
            THEN Handled(answer_418("bad base64 strings"), CONTEXTS, DATASETS, None)
            ELSE IF data.context_id \notin DOMAIN CONTEXTS
            THEN Handled(answer_404(<<"No context with id", data.context_id>>),
                         CONTEXTS, DATASETS, None)
            ELSE LET saved == save_dataset(data.context_id, dec.enc_X, dec.enc_Y,
                                           data.batch_size, rid)
                 IN  Handled([status_code |-> 200, json |-> [dataset_id |-> saved.ret]],
                             CONTEXTS, saved.DATASETS,
                             Some([kind |-> "dataset", id |-> saved.ret,
                                   val |-> <<data.context_id, dec.enc_X, dec.enc_Y,
                                             data.batch_size>>]))

\* POST /datasets/register
register_dataset(body, rid) ==
    LET parsed == Dataset(body)
    IN  IF parsed.raised # "None"
        THEN Handled([status_code |-> 422, json |-> [detail |-> "validation error"]],
                     CONTEXTS, DATASETS, None)
        ELSE
        LET data == parsed.data[1]
            dec == decode_pairs(data.X, data.Y)
        IN  IF dec.raised # "None"
            THEN Handled(answer_418("bad base64 strings"), CONTEXTS, DATASETS, None)
            ELSE LET saved == save_dataset(data.context_id, dec.enc_X, dec.enc_Y,
                                           data.batch_size, rid)
                 IN  Handled([status_code |-> 200, json |-> [dataset_id |-> saved.ret]],
                             CONTEXTS, saved.DATASETS,
                             Some([kind |-> "dataset", id |-> saved.ret,
                                   val |-> <<data.context_id, dec.enc_X, dec.enc_Y,
                                             data.batch_size>>]))

\* Mutant: the handler takes the dataset out of DATASETS (pop) to answer.
get_dataset_pop(dataset_id) ==
    LET ds == get_raw_dataset(dataset_id)
    IN  IF ds.raised = "KeyError"
        THEN Handled(answer_404(<<"No dataset with id", dataset_id>>),
                     CONTEXTS, DATASETS, None)
        ELSE LET v == ds.val[1]
             IN  Handled([status_code |-> 200,
                          json |-> [context_id |-> v[1],
                                    X |-> [i \in DOMAIN v[2] |-> b64encode(v[2][i])],
                                    Y |-> [i \in DOMAIN v[3] |-> b64encode(v[3][i])],
                                    batch_size |-> v[4]]],
                         CONTEXTS,
                         [id \in DOMAIN DATASETS \ {dataset_id} |-> DATASETS[id]], None)

\* GET /datasets/
get_dataset(dataset_id) ==
    LET ds == get_raw_dataset(dataset_id)
    IN  IF ds.raised = "KeyError"
        THEN Handled(answer_404(<<"No dataset with id", dataset_id>>),
                     CONTEXTS, DATASETS, None)
        ELSE LET v == ds.val[1]
             IN  Handled([status_code |-> 200,
                          json |-> [context_id |-> v[1],
                                    X |-> [i \in DOMAIN v[2] |-> b64encode(v[2][i])],
                                    Y |-> [i \in DOMAIN v[3] |-> b64encode(v[3][i])],
                                    batch_size |-> v[4]]],
                         CONTEXTS, DATASETS, None)

----------------------------------------------------------------------------
(* Values the callers pass.  A Python object carries its type; a TenSEAL   *)
(* object is known by the bytes its serialize() returns.                   *)

Bytes(b) == [type |-> "bytes", v |-> b]
TenSEALContext(b) == [type |-> "TenSEALContext", ser |-> b]
CKKSVector(b) == [type |-> "CKKSVector", ser |-> b]
PyInt(n) == [type |-> "int", v |-> n]
PyStr(n) == [type |-> "str", v |-> n]

\* Serialized contexts: "C", then the keys held (1 secret key, 2 galois keys)
\* plus 4 times the number of the encryption parameters (0 or 1).
CtxPublic == <<67, 2>>
CtxPrivate == <<67, 3>>
\* bytes that are no serialized TenSEAL object
Garbage == <<255>>
\* Serialized vectors: "V" plus the number of the encryption parameters the
\* vector was encrypted under, then the encrypted numbers.
Vec1 == <<86, 0, 1>>
Vec2 == <<86, 2, 3>>
Lab0 == <<86, 0>>
Lab1 == <<86, 1>>

\* ts.context_from(bytes): the context object, or a raise on other bytes
context_from(b) ==
    IF Len(b) = 2 /\ b[1] = 67 /\ b[2] \in 0..7
    THEN [raised |-> "None", val |-> Some(TenSEALContext(b))]
    ELSE [raised |-> "ValueError", val |-> None]

\* ts.ckks_vector_from(context, bytes): the vector object, or a raise on
\* other bytes and on a vector of other encryption parameters than the context's
ckks_vector_from(context, b) ==
    IF Len(b) >= 2 /\ b[1] = 86 + (context.ser[2] \div 4)
    THEN [raised |-> "None", val |-> Some(CKKSVector(b))]
    ELSE [raised |-> "ValueError", val |-> None]

\* "don't serialize if already": bytes pass, an object is serialized
serialized(x) == IF x.type = "bytes" THEN x.v ELSE x.ser

----------------------------------------------------------------------------
(* eeval/client/client.py.  A client call's result: the exception raised   *)
(* ("None" when it returned), the value returned, the status of the last   *)
(* response (0 when there was none), and the server state it leaves.       *)

Outcome(raised, ret, status_code, contexts, datasets, reg) ==
    [raised |-> raised, ret |-> ret, status_code |-> status_code,
     CONTEXTS |-> contexts, DATASETS |-> datasets, reg |-> reg]

\* a raise before any request was answered
RaisedLocally(exc) == Outcome(exc, None, 0, CONTEXTS, DATASETS, None)

\* Client._handle_error_response(response): the exception it raises
_handle_error_response(response) ==
    IF response.status_code = 404 THEN "ResourceNotFound"
    ELSE IF response.status_code = 418 THEN "Answer418"
    ELSE IF response.status_code = 500 THEN "ServerError"
    ELSE "RuntimeError"

\* the client's view of a response that is no success
RaisedOn(r) ==
    Outcome(_handle_error_response(r), None, r.status_code, r.CONTEXTS, r.DATASETS, r.reg)

\* Client.register_context(context); up: the server can be reached
Client_register_context(context, up, rid) ==
    LET ser_ctx == serialized(context)
        data == [context |-> b64encode(ser_ctx)]
    IN  IF ~up THEN RaisedLocally("ConnectionError")
        ELSE LET r == register_context(data, rid)
             IN  IF r.status_code # 200 THEN RaisedOn(r)
                 ELSE Outcome("None", Some(r.json.context_id), 200,
                              r.CONTEXTS, r.DATASETS, r.reg)

\* Client.get_context(ctx_id)
Client_get_context(ctx_id, up) ==
    IF ~up THEN RaisedLocally("ConnectionError")
    ELSE LET r == get_context(ctx_id)
         IN  IF r.status_code # 200 THEN RaisedOn(r)
             ELSE LET ser_ctx == b64decode(r.json.context)
                      ctx == IF ser_ctx.raised = "None" THEN context_from(ser_ctx.val)
                             ELSE [raised |-> "Error", val |-> None]
                  IN  Outcome(ctx.raised, ctx.val, 200, r.CONTEXTS, r.DATASETS, r.reg)

\* Mutant: the context is registered before context and context_id are
\* compared.
Client_register_dataset_begin_eager(enc_X, enc_Y, context, context_id, batch_size, up, rid) ==
    IF batch_size.type # "int" THEN RaisedLocally("TypeError")
    ELSE IF batch_size.v < 1 THEN RaisedLocally("ValueError")
    ELSE IF context # None
    THEN LET out == Client_register_context(context[1], up, rid)
         IN  IF out.raised = "None" /\ context_id # None
             THEN Outcome("ValueError", None, 0, out.CONTEXTS, out.DATASETS, out.reg)
             ELSE out
    ELSE IF context_id = None THEN RaisedLocally("ValueError")
    ELSE Outcome("None", context_id, 0, CONTEXTS, DATASETS, None)

\* Client.register_dataset up to its first request: the checks of its
\* arguments and, when a context is passed, the registration of the context.
\* ret is the context_id the dataset request will carry.
Client_register_dataset_begin(enc_X, enc_Y, context, context_id, batch_size, up, rid) ==
    IF batch_size.type # "int" THEN RaisedLocally("TypeError")
    ELSE IF batch_size.v < 1 THEN RaisedLocally("ValueError")
    ELSE IF context # None /\ context_id # None THEN RaisedLocally("ValueError")
    ELSE IF context # None THEN Client_register_context(context[1], up, rid)
    ELSE IF context_id = None THEN RaisedLocally("ValueError")
    ELSE Outcome("None", context_id, 0, CONTEXTS, DATASETS, None)

\* Client.register_dataset from the serialization of the entries on: the
\* dataset request and the pair (context_id, dataset_id) it returns
Client_register_dataset_post(enc_X, enc_Y, context_id, batch_size, up, rid) ==
    LET pairs == zip(enc_X, enc_Y)
        ser_X == [i \in DOMAIN pairs |-> serialized(pairs[i][1])]
        ser_Y == [i \in DOMAIN pairs |-> serialized(pairs[i][2])]
        data == [context_id |-> context_id,
                 X |-> [i \in DOMAIN ser_X |-> b64encode(ser_X[i])],
                 Y |-> [i \in DOMAIN ser_Y |-> b64encode(ser_Y[i])],
                 batch_size |-> Some(batch_size)]
    IN  IF ~up THEN RaisedLocally("ConnectionError")
        ELSE LET r == register_dataset(data, rid)
             IN  IF r.status_code # 200 THEN RaisedOn(r)
                 ELSE Outcome("None", Some(<<context_id, r.json.dataset_id>>), 200,
                              r.CONTEXTS, r.DATASETS, r.reg)

\* the vectors ts.ckks_vector_from builds from zip(X, Y) of a response; the
\* first pair that fails to load raises
load_pairs(context, X, Y) ==
    LET pairs == zip(X, Y)
        vec(s) == LET b == b64decode(s)
                  IN  IF b.raised = "None" THEN ckks_vector_from(context, b.val)
                      ELSE [raised |-> "Error", val |-> None]
        bad == {i \in DOMAIN pairs :
                   vec(pairs[i][1]).raised # "None" \/ vec(pairs[i][2]).raised # "None"}
        first == CHOOSE i \in bad : \A j \in bad : i <= j
    IN  IF bad # {}
        THEN [raised |-> IF vec(pairs[first][1]).raised # "None"
                         THEN vec(pairs[first][1]).raised
                         ELSE vec(pairs[first][2]).raised,
              enc_X |-> <<>>, enc_Y |-> <<>>]
        ELSE [raised |-> "None",
              enc_X |-> [i \in DOMAIN pairs |-> vec(pairs[i][1]).val[1]],
              enc_Y |-> [i \in DOMAIN pairs |-> vec(pairs[i][2]).val[1]]]

\* Client.get_dataset(dataset_id, context)
Client_get_dataset(dataset_id, context, up) ==
    IF ~up THEN RaisedLocally("ConnectionError")
    ELSE LET r == get_dataset(dataset_id)
         IN  IF r.status_code # 200 THEN RaisedOn(r)
             ELSE LET resp_json == r.json
                      vecs == load_pairs(context, resp_json.X, resp_json.Y)
                  IN  IF vecs.raised # "None"
                      THEN Outcome(vecs.raised, None, 200, r.CONTEXTS, r.DATASETS, r.reg)
                      ELSE Outcome("None",
                                   Some(<<resp_json.context_id, vecs.enc_X, vecs.enc_Y,
                                          resp_json.batch_size>>),
                                   200, r.CONTEXTS, r.DATASETS, r.reg)

----------------------------------------------------------------------------
(* Training round on the server: storage.load_context and load_dataset,    *)
(* utils.load_lr and train_lr, and the route /train-lr that the client     *)
(* posts to.                                                               *)

\* load_context(ctx_id): KeyError of get_raw_context, or what context_from does
load_context(ctx_id) ==
    LET context == get_raw_context(ctx_id)
    IN  IF context.raised # "None" THEN [raised |-> context.raised, val |-> None]
        ELSE context_from(context.val[1])

\* the vectors [ts.ckks_vector_from(ctx, x) for x in list], or the first raise
load_vectors(ctx, list) ==
    LET bad == {i \in DOMAIN list : ckks_vector_from(ctx, list[i]).raised # "None"}
    IN  IF bad # {}
        THEN [raised |-> ckks_vector_from(ctx, list[CHOOSE i \in bad : TRUE]).raised,
              val |-> <<>>]
        ELSE [raised |-> "None",
              val |-> [i \in DOMAIN list |-> ckks_vector_from(ctx, list[i]).val[1]]]

\* load_dataset(dataset_id)
load_dataset(dataset_id) ==
    LET raw == get_raw_dataset(dataset_id)
    IN  IF raw.raised # "None" THEN [raised |-> raw.raised, val |-> None]
        ELSE
        LET ctx == load_context(raw.val[1][1])
        IN  IF ctx.raised # "None" THEN [raised |-> ctx.raised, val |-> None]
            ELSE
            LET enc_X == load_vectors(ctx.val[1], raw.val[1][2])
                enc_Y == load_vectors(ctx.val[1], raw.val[1][3])
            IN  IF enc_X.raised # "None" THEN [raised |-> enc_X.raised, val |-> None]
                ELSE IF enc_Y.raised # "None" THEN [raised |-> enc_Y.raised, val |-> None]
                ELSE [raised |-> "None",
                      val |-> Some(<<ctx.val[1], enc_X.val, enc_Y.val, raw.val[1][4]>>)]

\* load_lr(ctx, ser_weights, ser_bias)
load_lr(ctx, ser_weights, ser_bias) ==
    LET weights == ckks_vector_from(ctx, ser_weights)
        bias == ckks_vector_from(ctx, ser_bias)
    IN  IF weights.raised # "None" THEN [raised |-> weights.raised, val |-> None]
        ELSE IF bias.raised # "None" THEN [raised |-> bias.raised, val |-> None]
        ELSE [raised |-> "None", val |-> Some(<<weights.val[1], bias.val[1]>>)]

\* the numbers a vector encrypts
plain(vec) == SubSeq(vec.ser, 2, Len(vec.ser))

RECURSIVE SumTo(_, _)
SumTo(f, n) == IF n = 0 THEN 0 ELSE f[n] + SumTo(f, n - 1)

\* x.dot(weights)
dot(x, w) == SumTo([i \in 1..Len(x) |-> x[i] * w[i]], Len(x))

\* Mutant: the polynomial without its cubic term.
polyval_linear(z) == 500 + 197 * z

\* polyval_([0.5, 0.197, 0, -0.004]) of z, in thousandths
polyval(z) == 500 + 197 * z - 4 * z * z * z

\* Mutant: the scaling of no entry raises nothing.
scaling_raises_never(n) == FALSE

\* -1 / len(X) raises ZeroDivisionError for a dataset of n = 0 entries
scaling_raises(n) == n = 0

\* train_lr, lines 43-61, on vectors of whole numbers: the loop over
\* zip(X, Y) and the scaling.  A delta is a pair num, den for the number
\* num / den: the sums of the loop, in thousandths, times -1 / len(X).
train_lr_loop(weights, bias, X, Y) ==
    LET pairs == zip(X, Y)
        w == plain(weights)
        b == plain(bias)[1]
        out_minus_y == [k \in DOMAIN pairs |->
                           polyval(dot(plain(pairs[k][1]), w) + b)
                           - 1000 * plain(pairs[k][2])[1]]
        sum_w == [i \in DOMAIN w |->
                     SumTo([k \in DOMAIN pairs |-> plain(pairs[k][1])[i] * out_minus_y[k]],
                           Len(pairs))]
        sum_b == SumTo(out_minus_y, Len(pairs))
    IN  IF \E k \in DOMAIN pairs : Len(plain(pairs[k][1])) # Len(w)
        THEN [raised |-> "ValueError", val |-> None]
        ELSE IF scaling_raises(Len(X))
        THEN [raised |-> "ZeroDivisionError", val |-> None]
        ELSE [raised |-> "None",
              val |-> Some([delta_weights |-> [num |-> [i \in DOMAIN w |-> 0 - sum_w[i]],
                                               den |-> 1000 * Len(X)],
                            delta_bias |-> [num |-> <<0 - sum_b>>,
                                            den |-> 1000 * Len(X)]])]

\* Mutant: the assertion on batch_size is left out.
train_lr_unasserted(weights, bias, X, Y, batch_size) ==
    train_lr_loop(weights, bias, X, Y)

\* train_lr(weights, bias, X, Y, batch_size): the assertion of line 42, then
\* the loop
train_lr(weights, bias, X, Y, batch_size) ==
    IF batch_size # 1 THEN [raised |-> "AssertionError", val |-> None]
    ELSE train_lr_loop(weights, bias, X, Y)

\* POST /train-lr: train_round(weights, bias, dataset_id).  It answers 404
\* for a dataset it does not hold, 418 for strings that are no base64, and
\* 500 when loading or training raises.
train_round(data) ==
    LET ser_weights == b64decode(data.weights)
        ser_bias == b64decode(data.bias)
    IN  IF ser_weights.raised # "None" \/ ser_bias.raised # "None"
        THEN Handled(answer_418("bad base64 strings"), CONTEXTS, DATASETS, None)
        ELSE IF get_raw_dataset(data.dataset_id).raised = "KeyError"
        THEN Handled(answer_404(<<"No dataset with id", data.dataset_id>>),
                     CONTEXTS, DATASETS, None)
        ELSE
        LET dataset == load_dataset(data.dataset_id)
            params == IF dataset.raised = "None"
                      THEN load_lr(dataset.val[1][1], ser_weights.val, ser_bias.val)
                      ELSE [raised |-> dataset.raised, val |-> None]
            update == IF params.raised = "None"
                      THEN train_lr(params.val[1][1], params.val[1][2], dataset.val[1][2],
                                    dataset.val[1][3], dataset.val[1][4])
                      ELSE [raised |-> params.raised, val |-> None]
        IN  IF update.raised # "None"
            THEN Handled([status_code |-> 500, json |-> [detail |-> update.raised]],
                         CONTEXTS, DATASETS, None)
            ELSE Handled([status_code |-> 200,
                          json |-> [weights_update |-> update.val[1].delta_weights,
                                    bias_update |-> update.val[1].delta_bias]],
                         CONTEXTS, DATASETS, None)

----------------------------------------------------------------------------
(* eeval/server/models: classes, as register_model and get_model see them.  *)

\* the abstract methods of abstract_model.Model
ModelAbstractMethods == {"__init__", "forward", "prepare_input"}

\* class FC(Model) of models/fc.py: it defines deserialize_input, and no
\* prepare_input
FC == [__name__ |-> "FC", __doc__ |-> "Neural netowrk with 3 Linear layers",
       isclass |-> TRUE, bases |-> {"Model"},
       defines |-> {"__init__", "forward", "deserialize_input"}]

\* class LinearLayer(Model) of models/linear_layer.py
LinearLayer == [__name__ |-> "LinearLayer", __doc__ |-> "Linear Layer",
                isclass |-> TRUE, bases |-> {"Model"},
                defines |-> {"__init__", "forward", "prepare_input"}]

\* a class that does not derive from Model, and an object that is no class
PlainClass == [__name__ |-> "dict", __doc__ |-> "dict() -> new empty dictionary",
               isclass |-> TRUE, bases |-> {"object"}, defines |-> {"__init__"}]
NotAClass == [__name__ |-> "forward", __doc__ |-> "", isclass |-> FALSE, bases |-> {},
              defines |-> {}]

isclass(c) == c.isclass
issubclass(c, base) == base \in c.bases

\* constructor(parameters): ABC refuses to instantiate a class that leaves an
\* abstract method undefined; oid tells the objects apart
Construct(constructor, parameters, oid) ==
    IF ModelAbstractMethods \subseteq constructor.defines
    THEN [raised |-> "None",
          val |-> Some([class |-> constructor.__name__, parameters |-> parameters,
                        oid |-> oid])]
    ELSE [raised |-> "TypeError", val |-> None]

\* A path is the sequence of its components; an absolute one starts with "/".
\* The working directory of the server process:
Cwd == <<"/", "srv">>

\* os.path.join(a, b)
join(a, b) == IF Len(b) > 0 /\ b[1] = "/" THEN b ELSE a \o b

\* os.path.realpath(path), on paths without links and dots: a relative path
\* is resolved from the working directory
realpath(path) == join(Cwd, path)

\* os.path.join(os.path.realpath(os.path.dirname(__file__)), "data")
PackageDataDir == <<"/", "site-packages", "eeval", "server", "models", "data">>

\* f"{model_name}-{version}.pickle"
file_name(model_name, version) == <<model_name, "-", version, ".pickle">>

\* the parameter files on disk
Files ==
    {<<PackageDataDir, file_name("LinearLayer", "0.1")>>,
     <<PackageDataDir, file_name("FC", "0.1")>>,
     <<PackageDataDir, file_name("fc", "0.1")>>,
     <<Cwd \o <<"params">>, file_name("fc", "0.2")>>,
     <<Cwd \o <<"other">>, file_name("LinearLayer", "0.2")>>,
     <<Cwd \o <<"parameters">>, file_name("ConvMNIST", "0.1")>>}

----------------------------------------------------------------------------
(* eeval/server/models/__init__.py.                                        *)

model_def(constructor, default_version, versions, data_dir) ==
    [constructor |-> constructor, default_version |-> default_version,
     versions |-> versions, data_dir |-> data_dir]

\* x in a list
InList(x, list) == \E i \in DOMAIN list : list[i] = x

\* the result of a call on the model registry: what it raises or returns,
\* and the module's dictionaries and the files opened as it leaves them
ModelsResult(raised, msg, ret, defs, cache, opened) ==
    [raised |-> raised, msg |-> msg, ret |-> ret, _MODEL_DEFS |-> defs,
     _MODELS_CACHE |-> cache, loads |-> opened]

ModelsRaise(exc, msg) == ModelsResult(exc, msg, None, _MODEL_DEFS, _MODELS_CACHE, loads)

\* Mutant: default_version is taken as given, without the test on versions.
register_model_unchecked(constructor_class, versions, model_name, default_version, data_dir) ==
    IF ~isclass(constructor_class)
    THEN ModelsRaise("TypeError", <<"constructor_class must be class">>)
    ELSE IF ~issubclass(constructor_class, "Model")
    THEN ModelsRaise("TypeError",
            <<"constructor_class is not a subclass of models.abstract_model.Model">>)
    ELSE IF Len(versions) = 0
    THEN ModelsRaise("ValueError", <<"versions can't be an empty list">>)
    ELSE
        LET dv == IF default_version = None THEN versions[1] ELSE default_version[1]
            name == IF model_name = None THEN constructor_class.__name__
                    ELSE model_name[1]
            defs == DictSet(_MODEL_DEFS, name,
                            model_def(constructor_class, dv, versions, data_dir))
            slots == [v \in {defs[name].versions[i] : i \in DOMAIN defs[name].versions}
                        |-> None]
        IN  ModelsResult("None", <<>>, None, defs,
                         DictSet(_MODELS_CACHE, name, slots), loads)

\* Mutant: the default is versions[-1], and a name registered before keeps
\* the cache it has.
register_model_lastDefault(constructor_class, versions, model_name, default_version, data_dir) ==
    IF ~isclass(constructor_class)
    THEN ModelsRaise("TypeError", <<"constructor_class must be class">>)
    ELSE IF ~issubclass(constructor_class, "Model")
    THEN ModelsRaise("TypeError",
            <<"constructor_class is not a subclass of models.abstract_model.Model">>)
    ELSE IF Len(versions) = 0
    THEN ModelsRaise("ValueError", <<"versions can't be an empty list">>)
    ELSE IF default_version # None /\ ~InList(default_version[1], versions)
    THEN ModelsRaise("ValueError", <<"default_version must be in versions">>)
    ELSE
        LET dv == IF default_version = None THEN versions[Len(versions)]
                  ELSE default_version[1]
            name == IF model_name = None THEN constructor_class.__name__
                    ELSE model_name[1]
            defs == DictSet(_MODEL_DEFS, name,
                            model_def(constructor_class, dv, versions, data_dir))
            slots == [v \in {defs[name].versions[i] : i \in DOMAIN defs[name].versions}
                        |-> None]
        IN  ModelsResult("None", <<>>, None, defs,
                         IF name \in DOMAIN _MODELS_CACHE THEN _MODELS_CACHE
                         ELSE DictSet(_MODELS_CACHE, name, slots), loads)

\* Mutant: a registration empties the slots of every model.
register_model_wipesCache(constructor_class, versions, model_name, default_version, data_dir) ==
    IF ~isclass(constructor_class)
    THEN ModelsRaise("TypeError", <<"constructor_class must be class">>)
    ELSE IF ~issubclass(constructor_class, "Model")
    THEN ModelsRaise("TypeError",
            <<"constructor_class is not a subclass of models.abstract_model.Model">>)
    ELSE IF Len(versions) = 0
    THEN ModelsRaise("ValueError", <<"versions can't be an empty list">>)
    ELSE IF default_version # None /\ ~InList(default_version[1], versions)
    THEN ModelsRaise("ValueError", <<"default_version must be in versions">>)
    ELSE
        LET dv == IF default_version = None THEN versions[1] ELSE default_version[1]
            name == IF model_name = None THEN constructor_class.__name__
                    ELSE model_name[1]
            defs == DictSet(_MODEL_DEFS, name,
                            model_def(constructor_class, dv, versions, data_dir))
            slots == [v \in {defs[name].versions[i] : i \in DOMAIN defs[name].versions}
                        |-> None]
        IN  ModelsResult("None", <<>>, None, defs,
                         DictSet([n \in DOMAIN _MODELS_CACHE |->
                                     [v \in DOMAIN _MODELS_CACHE[n] |-> None]],
                                 name, slots),
                         loads)

\* register_model(constructor_class, versions, model_name, default_version, data_dir)
register_model(constructor_class, versions, model_name, default_version, data_dir) ==
    IF ~isclass(constructor_class)
    THEN ModelsRaise("TypeError", <<"constructor_class must be class">>)
    ELSE IF ~issubclass(constructor_class, "Model")
    THEN ModelsRaise("TypeError",
            <<"constructor_class is not a subclass of models.abstract_model.Model">>)
    ELSE IF Len(versions) = 0
    THEN ModelsRaise("ValueError", <<"versions can't be an empty list">>)
    ELSE IF default_version # None /\ ~InList(default_version[1], versions)
    THEN ModelsRaise("ValueError", <<"default_version must be in versions">>)
    ELSE
        LET dv == IF default_version = None THEN versions[1] ELSE default_version[1]
            name == IF model_name = None THEN constructor_class.__name__
                    ELSE model_name[1]
            defs == DictSet(_MODEL_DEFS, name,
                            model_def(constructor_class, dv, versions, data_dir))
            slots == [v \in {defs[name].versions[i] : i \in DOMAIN defs[name].versions}
                        |-> None]
        IN  ModelsResult("None", <<>>, None, defs,
                         DictSet(_MODELS_CACHE, name, slots), loads)

\* _load_parameters(model_name, version): the file it opens, and the
\* parameters it unpickles or the OSError of open
_load_parameters(model_name, version) ==
    LET data_dir == IF _MODEL_DEFS[model_name].data_dir = None THEN _DEFAULT_DATA_DIR
                    ELSE _MODEL_DEFS[model_name].data_dir[1]
        file_path == <<realpath(data_dir), file_name(model_name, version)>>
    IN  IF file_path \in Files
        THEN [raised |-> "None", file_path |-> file_path, val |-> Some(file_path)]
        ELSE [raised |-> "OSError", file_path |-> file_path, val |-> None]

\* Mutant: a version the model does not have falls back to the default one.
get_model_fallback(model_name, version) ==
    IF model_name \notin DOMAIN _MODEL_DEFS
    THEN ModelsRaise("ModelNotFound",
                     <<"Model", model_name, "can't be found in this server">>)
    ELSE
        LET v == IF version = None \/ ~InList(version[1], _MODEL_DEFS[model_name].versions)
                 THEN _MODEL_DEFS[model_name].default_version
                 ELSE version[1]
        IN  IF _MODELS_CACHE[model_name][v] # None
            THEN ModelsResult("None", <<>>, _MODELS_CACHE[model_name][v],
                              _MODEL_DEFS, _MODELS_CACHE, loads)
            ELSE
            LET parameters == _load_parameters(model_name, v)
                opened == Append(loads, parameters.file_path)
            IN  IF parameters.raised # "None"
                THEN ModelsResult("OSError", <<>>, None, _MODEL_DEFS, _MODELS_CACHE, opened)
                ELSE
                LET model == Construct(_MODEL_DEFS[model_name].constructor,
                                       parameters.val[1], Len(opened))
                IN  IF model.raised # "None"
                    THEN ModelsResult(model.raised, <<>>, None, _MODEL_DEFS,
                                      _MODELS_CACHE, opened)
                    ELSE ModelsResult("None", <<>>, model.val, _MODEL_DEFS,
                                      [_MODELS_CACHE EXCEPT ![model_name][v] = model.val],
                                      opened)

\* get_model(model_name, version)
get_model(model_name, version) ==
    IF model_name \notin DOMAIN _MODEL_DEFS
    THEN ModelsRaise("ModelNotFound",
                     <<"Model", model_name, "can't be found in this server">>)
    ELSE IF version # None /\ ~InList(version[1], _MODEL_DEFS[model_name].versions)
    THEN ModelsRaise("ModelNotFound",
                     <<"Model", model_name, "doesn't have version", version[1]>>)
    ELSE
        LET v == IF version = None THEN _MODEL_DEFS[model_name].default_version
                 ELSE version[1]
        IN  IF _MODELS_CACHE[model_name][v] # None
            THEN ModelsResult("None", <<>>, _MODELS_CACHE[model_name][v],
                              _MODEL_DEFS, _MODELS_CACHE, loads)
            ELSE
            LET parameters == _load_parameters(model_name, v)
                opened == Append(loads, parameters.file_path)
            IN  IF parameters.raised # "None"
                THEN ModelsResult("OSError", <<>>, None, _MODEL_DEFS, _MODELS_CACHE, opened)
                ELSE
                LET model == Construct(_MODEL_DEFS[model_name].constructor,
                                       parameters.val[1], Len(opened))
                IN  IF model.raised # "None"
                    THEN ModelsResult(model.raised, <<>>, None, _MODEL_DEFS,
                                      _MODELS_CACHE, opened)
                    ELSE ModelsResult("None", <<>>, model.val, _MODEL_DEFS,
                                      [_MODELS_CACHE EXCEPT ![model_name][v] = model.val],
                                      opened)

\* get_model line by line, for calls that run at the same time.
\* Lines 147-152: the two tests, and the version the call goes on with.
get_model_check(model_name, version) ==
    IF model_name \notin DOMAIN _MODEL_DEFS
    THEN [raised |-> "ModelNotFound", version |-> None]
    ELSE IF version = None
    THEN [raised |-> "None", version |-> Some(_MODEL_DEFS[model_name].default_version)]
    ELSE IF ~InList(version[1], _MODEL_DEFS[model_name].versions)
    THEN [raised |-> "ModelNotFound", version |-> None]
    ELSE [raised |-> "None", version |-> version]

\* Mutant: the test of line 155 is inverted.
get_model_slot_is_None_inverted(model_name, version) ==
    _MODELS_CACHE[model_name][version] # None

\* Line 155: _MODELS_CACHE[model_name][version] is None
get_model_slot_is_None(model_name, version) ==
    _MODELS_CACHE[model_name][version] = None

\* Line 157: the store of the instance in the slot
get_model_store(model_name, version, model) ==
    [_MODELS_CACHE EXCEPT ![model_name][version] = model]

\* Line 161: return _MODELS_CACHE[model_name][version]
get_model_return(model_name, version) == _MODELS_CACHE[model_name][version]

\* get_model_def(model_name)
get_model_def(model_name) ==
    IF model_name \notin DOMAIN _MODEL_DEFS
    THEN ModelsRaise("ModelNotFound",
                     <<"Model", model_name, "can't be found in this server">>)
    ELSE ModelsResult("None", <<>>,
                      Some([model_name |-> model_name,
                            description |-> _MODEL_DEFS[model_name].constructor.__doc__,
                            default_version |-> _MODEL_DEFS[model_name].default_version,
                            versions |-> _MODEL_DEFS[model_name].versions]),
                      _MODEL_DEFS, _MODELS_CACHE, loads)

\* set_default_data_dir(path)
set_default_data_dir(path) == realpath(path)

----------------------------------------------------------------------------
(* The models' methods.  A vector is computed on through the numbers it     *)
(* encrypts; tenseal raises on operands whose sizes do not fit.             *)

\* the vector of the numbers nums, under the encryption parameters of vec
encrypted(vec, nums) == CKKSVector(<<vec.ser[1]>> \o nums)

\* enc_x.mm(matrix), enc_x.mm_(matrix): a matrix is the list of its rows
mm(enc_x, matrix) ==
    LET x == plain(enc_x)
    IN  IF Len(matrix) # Len(x) THEN [raised |-> "ValueError", val |-> None]
        ELSE [raised |-> "None",
              val |-> Some(encrypted(enc_x,
                        [j \in 1..Len(matrix[1]) |->
                            SumTo([i \in 1..Len(x) |-> x[i] * matrix[i][j]], Len(x))]))]

\* enc_x + bias, enc_x.add_plain_(bias) for a list bias
add_plain(enc_x, bias) ==
    LET x == plain(enc_x)
    IN  IF Len(bias) # Len(x) THEN [raised |-> "ValueError", val |-> None]
        ELSE [raised |-> "None",
              val |-> Some(encrypted(enc_x, [i \in 1..Len(x) |-> x[i] + bias[i]]))]

\* enc_x.square_()
square_(enc_x) ==
    encrypted(enc_x, [i \in 1..Len(plain(enc_x)) |-> plain(enc_x)[i] * plain(enc_x)[i]])

\* enc_x.conv2d_im2col(kernel, windows_nb) + bias for a number bias: the input
\* holds, for each element of the kernel in turn, its value in every window
conv2d_im2col(enc_x, kernel, windows_nb, bias) ==
    LET x == plain(enc_x)
        flat == [k \in 1..(Len(kernel) * Len(kernel[1])) |->
                    kernel[((k - 1) \div Len(kernel[1])) + 1][((k - 1) % Len(kernel[1])) + 1]]
    IN  IF Len(x) # Len(flat) * windows_nb THEN [raised |-> "ValueError", val |-> None]
        ELSE [raised |-> "None",
              val |-> Some(encrypted(enc_x,
                        [i \in 1..windows_nb |->
                            SumTo([k \in 1..Len(flat) |->
                                      flat[k] * x[(k - 1) * windows_nb + i]], Len(flat))
                            + bias]))]

\* Mutant: every context passes for one that holds galois keys.
galois_keys_unchecked(ctx) ==
    [raised |-> "None"]

\* ctx.galois_keys(): it raises on a context that holds none
galois_keys(ctx) ==
    IF (ctx.ser[2] \div 2) % 2 = 1 THEN [raised |-> "None"]
    ELSE [raised |-> "ValueError"]

\* pickle.load of a parameter file: the parameters of a ConvMNIST, of an FC,
\* of a LinearLayer from 2 to 2 numbers (versions 0.1) and of one from 3
\* numbers to 1 (the other versions)
Pickled(file_path) ==
    IF file_path[2][1] = "ConvMNIST"
    THEN [conv1_weight |-> << <<<<1, 1>>>> >>, conv1_bias |-> <<0>>,
          fc1_weight |-> <<<<1>>>>, fc1_bias |-> <<0>>,
          fc2_weight |-> <<<<1>>>>, fc2_bias |-> <<1>>, windows_nb |-> 1]
    ELSE IF file_path[2][1] = "FC"
    THEN [w1 |-> <<<<1, 0>>, <<0, 1>>>>, b1 |-> <<0, 0>>,
          w2 |-> <<<<1, 0>>, <<0, 1>>>>, b2 |-> <<0, 0>>,
          w3 |-> <<<<1, 0>>, <<0, 1>>>>, b3 |-> <<0, 0>>]
    ELSE IF file_path[2][3] = "0.1"
    THEN [weight |-> <<<<1, 2>>, <<0, 1>>>>, bias |-> <<1, 0>>]
    ELSE [weight |-> <<<<1>>, <<1>>, <<1>>>>, bias |-> <<0>>]

\* what a method of a model returns or raises
MethodRaise(exc, msg) == [raised |-> exc, msg |-> msg, val |-> None]
MethodReturn(val) == [raised |-> "None", msg |-> <<>>, val |-> Some(val)]

\* try: ... except Exception as e: raise EvaluationError(f"{e.__class__.__name__}: ...")
AsEvaluationError(r) ==
    IF r.raised = "None" THEN MethodReturn(r.val[1])
    ELSE MethodRaise("EvaluationError", <<r.raised>>)

\* r.mm(weight) + bias on the result r of the statement before, unless that raised
mm_add(r, weight, bias) ==
    IF r.raised # "None" THEN r
    ELSE LET prod == mm(r.val[1], weight)
         IN  IF prod.raised # "None" THEN prod ELSE add_plain(prod.val[1], bias)

\* r.square_() on the result r of the statement before, unless that raised
squared(r) ==
    IF r.raised # "None" THEN r
    ELSE [raised |-> "None", val |-> Some(square_(r.val[1]))]

\* the input of the first statement of a method
Given(enc_x) == [raised |-> "None", val |-> Some(enc_x)]

\* LinearLayer.__init__(self, parameters)
LinearLayer_init(parameters) ==
    [weight |-> parameters.weight, bias |-> parameters.bias]

\* LinearLayer.forward(self, enc_x)
LinearLayer_forward(self, enc_x) ==
    AsEvaluationError(mm_add(Given(enc_x), self.weight, self.bias))

\* LinearLayer.prepare_input(context, ckks_vector)
LinearLayer_prepare_input(context, ckks_vector) ==
    LET ctx == context_from(context)
        enc_x == IF ctx.raised = "None" THEN ckks_vector_from(ctx.val[1], ckks_vector)
                 ELSE [raised |-> ctx.raised, val |-> None]
    IN  IF enc_x.raised # "None"
        THEN MethodRaise("DeserializationError",
                         <<"cannot deserialize context or ckks_vector">>)
        ELSE IF galois_keys(ctx.val[1]).raised # "None"
        THEN MethodRaise("InvalidContext", <<"the context doesn't hold galois keys">>)
        ELSE MethodReturn(enc_x.val[1])

\* FC.__init__(self, parameters)
FC_init(parameters) ==
    [w1 |-> parameters.w1, b1 |-> parameters.b1, w2 |-> parameters.w2,
     b2 |-> parameters.b2, w3 |-> parameters.w3, b3 |-> parameters.b3]

\* Mutant: the output of the third layer is squared as well.
FC_forward_squaresLast(self, enc_x) ==
    AsEvaluationError(
        squared(mm_add(squared(mm_add(squared(mm_add(Given(enc_x), self.w1, self.b1)),
                                      self.w2, self.b2)),
                       self.w3, self.b3)))

\* FC.forward(self, enc_x)
FC_forward(self, enc_x) ==
    AsEvaluationError(
        mm_add(squared(mm_add(squared(mm_add(Given(enc_x), self.w1, self.b1)),
                              self.w2, self.b2)),
               self.w3, self.b3))

\* class ConvMNIST(models.Model) of examples/MNIST/server.py
ConvMNIST == [__name__ |-> "ConvMNIST", __doc__ |-> "CNN for classifying MNIST data.",
              isclass |-> TRUE, bases |-> {"Model"},
              defines |-> {"__init__", "forward", "prepare_input"}]

\* ConvMNIST.__init__(self, parameters)
ConvMNIST_init(parameters) ==
    [conv1_weight |-> parameters.conv1_weight, conv1_bias |-> parameters.conv1_bias,
     fc1_weight |-> parameters.fc1_weight, fc1_bias |-> parameters.fc1_bias,
     fc2_weight |-> parameters.fc2_weight, fc2_bias |-> parameters.fc2_bias,
     windows_nb |-> parameters.windows_nb]

\* ts.pack_vectors(channels): the channels one after the other
RECURSIVE pack(_)
pack(channels) ==
    IF Len(channels) = 0 THEN <<>>
    ELSE plain(channels[1]) \o pack(SubSeq(channels, 2, Len(channels)))

\* ConvMNIST.forward(self, enc_x): no statement of it is in a try, so what
\* tenseal raises leaves forward as it is
ConvMNIST_forward(self, enc_x) ==
    LET pairs == zip(self.conv1_weight, self.conv1_bias)
        y == [c \in DOMAIN pairs |->
                 conv2d_im2col(enc_x, pairs[c][1], self.windows_nb, pairs[c][2])]
        raising == {c \in DOMAIN pairs : y[c].raised # "None"}
        channels == [c \in DOMAIN pairs |-> y[c].val[1]]
        out == mm_add(squared(mm_add(squared(Given(encrypted(enc_x, pack(channels)))),
                                     self.fc1_weight, self.fc1_bias)),
                      self.fc2_weight, self.fc2_bias)
    IN  IF raising # {}
        THEN MethodRaise(y[CHOOSE c \in raising : \A d \in raising : c <= d].raised, <<>>)
        ELSE IF out.raised # "None" THEN MethodRaise(out.raised, <<>>)
        ELSE MethodReturn(out.val[1])

\* ConvMNIST.prepare_input(context, ckks_vector)
ConvMNIST_prepare_input(context, ckks_vector) ==
    LET ctx == context_from(context)
        enc_x == IF ctx.raised = "None" THEN ckks_vector_from(ctx.val[1], ckks_vector)
                 ELSE [raised |-> ctx.raised, val |-> None]
    IN  IF enc_x.raised # "None"
        THEN MethodRaise("DeserializationError",
                         <<"cannot deserialize context or ckks_vector">>)
        ELSE IF galois_keys(ctx.val[1]).raised # "None"
        THEN MethodRaise("InvalidContext", <<"the context doesn't hold galois keys">>)
        ELSE MethodReturn(enc_x.val[1])

\* model.prepare_input(context, ckks_vector), by the class of the model
prepare_input(model, context, ckks_vector) ==
    IF model.class = "ConvMNIST" THEN ConvMNIST_prepare_input(context, ckks_vector)
    ELSE LinearLayer_prepare_input(context, ckks_vector)

\* Model.__call__(self, enc_x): self.forward(enc_x), by the class of the model
Model_call(model, enc_x) ==
    IF model.class = "ConvMNIST"
    THEN ConvMNIST_forward(ConvMNIST_init(Pickled(model.parameters)), enc_x)
    ELSE IF model.class = "FC"
    THEN FC_forward(FC_init(Pickled(model.parameters)), enc_x)
    ELSE LinearLayer_forward(LinearLayer_init(Pickled(model.parameters)), enc_x)

----------------------------------------------------------------------------
(* eeval/server/main.py: POST /eval/{model_name}.                           *)

\* what evaluation leaves: the response, the calls it made in order, the
\* exception that ended it ("None" when it returned the output), and the
\* model registry after its get_model
Evaluated(response, steps, raised, m) ==
    [status_code |-> response.status_code, json |-> response.json, steps |-> steps,
     raised |-> raised, _MODEL_DEFS |-> m._MODEL_DEFS, _MODELS_CACHE |-> m._MODELS_CACHE,
     loads |-> m.loads]

\* the response to a request whose handler raised HTTPException(status_code=500),
\* or an exception that nothing handles
InternalServerError == [status_code |-> 500, json |-> [detail |-> <<"Internal Server Error">>]]

\* evaluation(data, model_name, version)
evaluation(data, model_name, version) ==
    LET m == get_model(model_name, version)
    IN  IF m.raised = "ModelNotFound"
        THEN Evaluated(answer_418(m.msg), <<"get_model">>, "ModelNotFound", m)
        ELSE IF m.raised # "None"
        THEN Evaluated(InternalServerError, <<"get_model">>, "HTTPException", m)
        ELSE
        LET model == m.ret[1]
            context == b64decode(data.context)
            ckks_vector == b64decode(data.ckks_vector)
        IN  IF context.raised # "None" \/ ckks_vector.raised # "None"
            THEN Evaluated(answer_418(<<"bad base64 strings">>),
                           <<"get_model", "b64decode">>, "Error", m)
            ELSE
            LET encrypted_x == prepare_input(model, context.val, ckks_vector.val)
            IN  IF encrypted_x.raised # "None"
                THEN Evaluated(answer_418(encrypted_x.msg),
                               <<"get_model", "b64decode", "prepare_input">>,
                               encrypted_x.raised, m)
                ELSE
                LET encrypted_out == Model_call(model, encrypted_x.val[1])
                    steps == <<"get_model", "b64decode", "prepare_input", "forward">>
                IN  IF encrypted_out.raised = "EvaluationError"
                    THEN Evaluated(answer_418(encrypted_out.msg), steps,
                                   "EvaluationError", m)
                    ELSE IF encrypted_out.raised # "None"
                    THEN Evaluated(InternalServerError, steps, encrypted_out.raised, m)
                    ELSE Evaluated([status_code |-> 200,
                                    json |-> [ckks_vector |->
                                                 b64encode(encrypted_out.val[1].ser)]],
                                   steps, "None", m)

----------------------------------------------------------------------------
(* The requests of the model.                                              *)

\* every string a request can carry as an identifier
Ids == get_random_id

CtxArgs == {Bytes(CtxPublic), TenSEALContext(CtxPrivate)}

\* the entries of a dataset: lists of equal length, lists of different
\* lengths, and no entry at all
EntriesEqual == [X |-> <<CKKSVector(Vec1), Bytes(Vec2)>>, Y |-> <<Bytes(Lab1), Bytes(Lab0)>>]
EntriesUneven == [X |-> <<Bytes(Vec2), Bytes(Vec1)>>, Y |-> <<Bytes(Lab1)>>]
EntriesNone == [X |-> <<>>, Y |-> <<>>]

RegisterDatasetArg(xy, context, context_id, batch_size) ==
    [enc_X |-> xy.X, enc_Y |-> xy.Y, context |-> context, context_id |-> context_id,
     batch_size |-> batch_size]

\* the calls of Client.register_dataset: every way to name the context with
\* three datasets, then one call for each argument check
RegisterDatasetArgs ==
    {RegisterDatasetArg(c[1], ctx[1], ctx[2], c[2]) :
        c \in {<<EntriesEqual, PyInt(1)>>, <<EntriesUneven, PyInt(2)>>,
               <<EntriesNone, PyInt(1)>>},
        ctx \in {<<Some(c), None>> : c \in CtxArgs} \cup {<<None, Some(id)>> : id \in Ids}}
    \cup {RegisterDatasetArg(EntriesEqual, Some(Bytes(CtxPublic)), None, PyInt(0)),
          RegisterDatasetArg(EntriesEqual, Some(Bytes(CtxPublic)), None, PyStr(1)),
          RegisterDatasetArg(EntriesEqual, None, None, PyInt(1)),
          RegisterDatasetArg(EntriesEqual, Some(Bytes(CtxPublic)),
                             Some(CHOOSE id \in Ids : TRUE), PyInt(1))}

\* a string that is no base64: one character, which no padding completes
BadBase64 == <<19>>

\* the bodies a caller can post to /contexts/register
ContextBodies == {[context |-> b64encode(CtxPublic)], [context |-> BadBase64]}

\* the bodies a caller can post to /datasets/register
DatasetBodies ==
    {[context_id |-> CHOOSE id \in Ids : TRUE, X |-> <<b64encode(Vec1)>>,
      Y |-> <<b64encode(Lab1)>>, batch_size |-> bs] :
        bs \in {None, Some(PyInt(0)), Some(PyInt(-1)), Some(PyStr(1))}}
    \cup {[context_id |-> CHOOSE id \in Ids : TRUE, X |-> <<BadBase64>>,
           Y |-> <<b64encode(Lab1)>>, batch_size |-> None]}

Idle == [pc |-> "idle"]

\* the threads that call get_model, and a thread that is in no call
Threads == 1..NThreads
ThreadIdle == [pc |-> "idle"]

\* what a caller sees of a client call
Seen(out) == [raised |-> out.raised, ret |-> out.ret, status_code |-> out.status_code]

----------------------------------------------------------------------------
(* Initial state: the dictionaries as the modules define them.             *)

Init ==
    /\ CONTEXTS = EmptyDict
    /\ DATASETS = EmptyDict
    /\ issued = {}
    /\ nregs = 0
    /\ call = Idle
    /\ resp = [op |-> "none", reg |-> None]
    /\ _MODEL_DEFS = EmptyDict
    /\ _MODELS_CACHE = EmptyDict
    /\ _DEFAULT_DATA_DIR = PackageDataDir
    /\ loads = <<>>
    /\ mresp = [op |-> "none"]
    /\ threads = [t \in Threads |-> ThreadIdle]

\* the server state a handler leaves, and the history of its registration
Commit(r) ==
    /\ CONTEXTS' = r.CONTEXTS
    /\ DATASETS' = r.DATASETS
    /\ issued' = issued \cup {<<r.reg[i].kind, r.reg[i].id>> : i \in DOMAIN r.reg}
    /\ nregs' = nregs + Len(r.reg)

----------------------------------------------------------------------------
(* Registry actions.                                                       *)

\* a caller runs Client.register_context(context)
ClientRegisterContext ==
    /\ nregs < MaxRegs
    /\ \E context \in CtxArgs, up \in BOOLEAN, rid \in get_random_id :
          LET out == Client_register_context(context, up, rid)
          IN  /\ Commit(out)
              /\ resp' = [op |-> "register_context", via |-> "client",
                          arg |-> context, out |-> Seen(out), reg |-> out.reg]
    /\ UNCHANGED <<call, modelVars>>

\* a caller runs Client.get_context(ctx_id)
ClientGetContext ==
    /\ \E ctx_id \in Ids, up \in BOOLEAN :
          LET out == Client_get_context(ctx_id, up)
          IN  /\ Commit(out)
              /\ resp' = [op |-> "get_context", via |-> "client",
                          arg |-> ctx_id, out |-> Seen(out), reg |-> out.reg]
    /\ UNCHANGED <<call, modelVars>>

\* a caller enters Client.register_dataset: the argument checks and, with a
\* context, the request that registers it
ClientRegisterDatasetBegin ==
    /\ call = Idle
    /\ nregs + 1 < MaxRegs
    /\ \E arg \in RegisterDatasetArgs, up \in BOOLEAN, rid \in get_random_id :
          LET out == Client_register_dataset_begin(arg.enc_X, arg.enc_Y, arg.context,
                                                   arg.context_id, arg.batch_size,
                                                   up, rid)
          IN  /\ Commit(out)
              /\ IF out.raised = "None"
                 THEN /\ call' = [pc |-> "post_dataset", arg |-> arg,
                                  context_id |-> out.ret[1]]
                      /\ resp' = [op |-> "register_dataset", via |-> "client",
                                  arg |-> arg, out |-> [raised |-> "pending"],
                                  reg |-> out.reg]
                 ELSE /\ call' = Idle
                      /\ resp' = [op |-> "register_dataset", via |-> "client",
                                  arg |-> arg, out |-> Seen(out), reg |-> out.reg]
    /\ UNCHANGED modelVars

\* Client.register_dataset goes on: the request that registers the dataset
ClientRegisterDatasetPost ==
    /\ call.pc = "post_dataset"
    /\ \E up \in BOOLEAN, rid \in get_random_id :
          LET out == Client_register_dataset_post(call.arg.enc_X, call.arg.enc_Y,
                                                  call.context_id, call.arg.batch_size,
                                                  up, rid)
          IN  /\ Commit(out)
              /\ resp' = [op |-> "register_dataset", via |-> "client",
                          arg |-> call.arg, out |-> Seen(out), reg |-> out.reg]
    /\ call' = Idle
    /\ UNCHANGED modelVars

\* a caller runs Client.get_dataset(dataset_id, context)
ClientGetDataset ==
    /\ \E dataset_id \in Ids, up \in BOOLEAN :
          LET out == Client_get_dataset(dataset_id, TenSEALContext(CtxPublic), up)
          IN  /\ Commit(out)
              /\ resp' = [op |-> "get_dataset", via |-> "client",
                          arg |-> dataset_id, out |-> Seen(out), reg |-> out.reg]
    /\ UNCHANGED <<call, modelVars>>

\* a request posted to /contexts/register by another program
HttpRegisterContext ==
    /\ nregs < MaxRegs
    /\ \E data \in ContextBodies, rid \in get_random_id :
          LET r == register_context(data, rid)
          IN  /\ Commit(r)
              /\ resp' = [op |-> "register_context", via |-> "http", arg |-> data,
                          out |-> [status_code |-> r.status_code, json |-> r.json],
                          reg |-> r.reg]
    /\ UNCHANGED <<call, modelVars>>

\* a request posted to /datasets/register by another program
HttpRegisterDataset ==
    /\ nregs < MaxRegs
    /\ \E body \in DatasetBodies, rid \in get_random_id :
          LET r == register_dataset(body, rid)
          IN  /\ Commit(r)
              /\ resp' = [op |-> "register_dataset", via |-> "http", arg |-> body,
                          out |-> [status_code |-> r.status_code, json |-> r.json],
                          reg |-> r.reg]
    /\ UNCHANGED <<call, modelVars>>

----------------------------------------------------------------------------
(* Model registry actions.                                                 *)

RegisterModelArg(constructor_class, versions, model_name, default_version, data_dir) ==
    [constructor_class |-> constructor_class, versions |-> versions,
     model_name |-> model_name, default_version |-> default_version,
     data_dir |-> data_dir]

\* the calls of register_model: four that register (two of them under the
\* same name), then one or two for each check
RegisterModelArgs ==
    {RegisterModelArg(LinearLayer, <<"0.1", "0.2">>, None, None, None),
     RegisterModelArg(LinearLayer, <<"0.2", "0.1">>, Some("fc"), Some("0.2"),
                      Some(<<"params">>)),
     RegisterModelArg(FC, <<"0.1">>, None, None, None),
     RegisterModelArg(FC, <<"0.1">>, Some("fc"), Some("0.1"), None),
     RegisterModelArg(NotAClass, <<"0.1">>, None, None, None),
     RegisterModelArg(PlainClass, <<"0.1">>, Some("fc"), None, None),
     RegisterModelArg(LinearLayer, <<>>, Some("fc"), None, None),
     RegisterModelArg(LinearLayer, <<"0.1">>, None, Some("0.2"), None),
     RegisterModelArg(NotAClass, <<>>, Some("fc"), Some("0.1"), None)}

ModelNames == {"fc", "FC", "LinearLayer", "unknown"}
VersionArgs == {None, Some("0.1"), Some("0.2"), Some("9.9")}

\* what the caller of a model-registry function sees
SeenOf(r) == [raised |-> r.raised, msg |-> r.msg, ret |-> r.ret]

CommitModels(r) ==
    /\ _MODEL_DEFS' = r._MODEL_DEFS
    /\ _MODELS_CACHE' = r._MODELS_CACHE
    /\ loads' = r.loads

\* a loader script calls register_model
RegisterModel ==
    /\ \E arg \in RegisterModelArgs :
          LET r == register_model(arg.constructor_class, arg.versions, arg.model_name,
                                  arg.default_version, arg.data_dir)
          IN  /\ CommitModels(r)
              /\ mresp' = [op |-> "register_model", arg |-> arg, out |-> SeenOf(r)]
    /\ UNCHANGED <<registryVars, _DEFAULT_DATA_DIR, threads>>

\* a handler calls get_model(model_name, version)
GetModel ==
    /\ \E model_name \in ModelNames, version \in VersionArgs :
          LET r == get_model(model_name, version)
          IN  /\ Len(r.loads) <= MaxLoads
              /\ CommitModels(r)
              /\ mresp' = [op |-> "get_model",
                           arg |-> [model_name |-> model_name, version |-> version],
                           out |-> SeenOf(r)]
    /\ UNCHANGED <<registryVars, _DEFAULT_DATA_DIR, threads>>

\* a handler calls get_model_def(model_name)
GetModelDef ==
    /\ \E model_name \in ModelNames :
          LET r == get_model_def(model_name)
          IN  /\ CommitModels(r)
              /\ mresp' = [op |-> "get_model_def", arg |-> [model_name |-> model_name],
                           out |-> SeenOf(r)]
    /\ UNCHANGED <<registryVars, _DEFAULT_DATA_DIR, threads>>

\* the command serve calls set_default_data_dir(path)
SetDefaultDataDir ==
    /\ \E path \in {PackageDataDir, <<"other">>} :
          /\ _DEFAULT_DATA_DIR' = set_default_data_dir(path)
          /\ mresp' = [op |-> "set_default_data_dir", arg |-> [path |-> path],
                       out |-> [raised |-> "None", msg |-> <<>>,
                                ret |-> Some(set_default_data_dir(path))]]
    /\ UNCHANGED <<registryVars, _MODEL_DEFS, _MODELS_CACHE, loads, threads>>

NextModels ==
    \/ RegisterModel
    \/ GetModel
    \/ GetModelDef
    \/ SetDefaultDataDir

SpecModels == Init /\ [][NextModels]_vars

----------------------------------------------------------------------------
(* FC.forward as a function of the parameters and the input.               *)

\* the sizes of the layers, and the largest number of an input
MaxDim == 2
MaxVal == 2

\* the lists of n numbers up to MaxVal
Inputs(n) == [1..n -> 0..MaxVal]

\* weights from n numbers to n: the identity, a matrix of ones, twice the identity
WeightsOf(n) ==
    {[i \in 1..n |-> [j \in 1..n |-> IF i = j THEN 1 ELSE 0]],
     [i \in 1..n |-> [j \in 1..n |-> 1]],
     [i \in 1..n |-> [j \in 1..n |-> IF i = j THEN 2 ELSE 0]]}

\* biases of n numbers: zeros, ones
BiasesOf(n) == {[j \in 1..n |-> 0], [j \in 1..n |-> 1]}

\* the unpickled parameter files of an FC of layers of size n
FCParameters(n) ==
    [w1 : WeightsOf(n), b1 : BiasesOf(n), w2 : WeightsOf(n), b2 : BiasesOf(n),
     w3 : WeightsOf(n), b3 : BiasesOf(n)]

\* an FC is built from parameters, and an encrypted input is at hand
InitForward ==
    /\ CONTEXTS = EmptyDict
    /\ DATASETS = EmptyDict
    /\ issued = {}
    /\ nregs = 0
    /\ call = Idle
    /\ resp = [op |-> "none", reg |-> None]
    /\ _MODEL_DEFS = EmptyDict
    /\ _MODELS_CACHE = EmptyDict
    /\ _DEFAULT_DATA_DIR = PackageDataDir
    /\ loads = <<>>
    /\ threads = [t \in Threads |-> ThreadIdle]
    /\ \E n \in 1..MaxDim, k \in 1..MaxDim :
          \E parameters \in FCParameters(n), x \in Inputs(k) :
             mresp = [op |-> "FC", self |-> FC_init(parameters),
                      enc_x |-> CKKSVector(<<86>> \o x)]

\* self.forward(enc_x)
FCForward ==
    /\ mresp.op = "FC"
    /\ mresp' = [op |-> "FC.forward", self |-> mresp.self, enc_x |-> mresp.enc_x,
                 out |-> FC_forward(mresp.self, mresp.enc_x)]
    /\ UNCHANGED <<registryVars, _MODEL_DEFS, _MODELS_CACHE, _DEFAULT_DATA_DIR, loads,
                   threads>>

NextForward == FCForward

SpecForward == InitForward /\ [][NextForward]_vars

----------------------------------------------------------------------------
(* The evaluation endpoint.  The loader script registers the models before  *)
(* the server starts; then callers post to /eval/{model_name}.              *)

\* the calls of register_model of the loader scripts: the models of the
\* package under their own names and under the name "fc", and the model of
\* examples/MNIST/server.py
EvalModelArgs ==
    {RegisterModelArg(LinearLayer, <<"0.1", "0.2">>, None, None, None),
     RegisterModelArg(LinearLayer, <<"0.2", "0.1">>, Some("fc"), Some("0.2"),
                      Some(<<"params">>)),
     RegisterModelArg(FC, <<"0.1">>, None, None, None),
     RegisterModelArg(ConvMNIST, <<"0.1">>, None, None, Some(<<"parameters">>))}

\* serialized contexts: one without galois keys, and one that holds them
\* under other encryption parameters
CtxNoGalois == <<67, 0>>
CtxOther == <<67, 6>>
\* a vector of one number, encrypted under the other encryption parameters
VecOther == <<87, 1>>

\* a body of a request to /eval/{model_name}
EvalBody(context, ckks_vector) == [context |-> context, ckks_vector |-> ckks_vector]

\* the bodies a caller can post to /eval/{model_name}: a good one for each
\* size of input and each encryption parameters; a context without galois
\* keys; a context and a vector that do not fit; then bytes that are no
\* context or no vector, and a string that is no base64
EvalBodies ==
    {EvalBody(b64encode(CtxPublic), b64encode(Vec1)),
     EvalBody(b64encode(CtxOther), b64encode(VecOther)),
     EvalBody(b64encode(CtxNoGalois), b64encode(Vec1)),
     EvalBody(b64encode(CtxOther), b64encode(Vec1)),
     EvalBody(b64encode(Garbage), b64encode(Vec1)),
     EvalBody(b64encode(CtxPublic), b64encode(Garbage)),
     EvalBody(b64encode(CtxNoGalois), BadBase64)}

EvalNames == {"LinearLayer", "fc", "FC", "ConvMNIST", "unknown"}
EvalVersions == {None, Some("0.2")}

\* a loader script calls register_model, before any request is served
EvalRegisterModel ==
    /\ loads = <<>>
    /\ mresp.op # "evaluation"
    /\ \E arg \in EvalModelArgs :
          LET r == register_model(arg.constructor_class, arg.versions, arg.model_name,
                                  arg.default_version, arg.data_dir)
          IN  /\ CommitModels(r)
              /\ mresp' = [op |-> "register_model", arg |-> arg, out |-> SeenOf(r)]
    /\ UNCHANGED <<registryVars, _DEFAULT_DATA_DIR, threads>>

\* POST /eval/{model_name}?version=
HttpEvaluation ==
    /\ \E data \in EvalBodies, model_name \in EvalNames, version \in EvalVersions :
          LET r == evaluation(data, model_name, version)
          IN  /\ Len(r.loads) <= MaxLoads
              /\ CommitModels(r)
              /\ mresp' = [op |-> "evaluation",
                           arg |-> [data |-> data, model_name |-> model_name,
                                    version |-> version],
                           out |-> [status_code |-> r.status_code, json |-> r.json,
                                    steps |-> r.steps, raised |-> r.raised]]
    /\ UNCHANGED <<registryVars, _DEFAULT_DATA_DIR, threads>>

NextEval ==
    \/ EvalRegisterModel
    \/ HttpEvaluation

SpecEval == Init /\ [][NextEval]_vars

----------------------------------------------------------------------------
(* get_model called by several threads at once.  The models are registered  *)
(* by the loader script, which start_server runs before the server starts.  *)

\* the calls the threads make
RaceCalls ==
    {<<"fc", None>>, <<"fc", Some("0.2")>>, <<"FC", Some("0.1")>>, <<"fc", Some("9.9")>>}

AllIdle == \A t \in Threads : threads[t] = ThreadIdle

ThreadVarsUnchanged == UNCHANGED <<registryVars, _MODEL_DEFS, _DEFAULT_DATA_DIR, mresp>>

\* the loader script registers a model
LoaderRegisterModel ==
    /\ AllIdle
    /\ loads = <<>>
    /\ RegisterModel

\* thread t enters get_model: lines 147-152
GetModelCall(t) ==
    /\ threads[t].pc = "idle"
    /\ \E c \in RaceCalls :
          LET chk == get_model_check(c[1], c[2])
          IN  threads' = [threads EXCEPT ![t] =
                  IF chk.raised # "None"
                  THEN [pc |-> "done", model_name |-> c[1], arg |-> c[2],
                        raised |-> chk.raised, ret |-> None]
                  ELSE [pc |-> "test", model_name |-> c[1], arg |-> c[2],
                        version |-> chk.version[1]]]
    /\ UNCHANGED <<_MODELS_CACHE, loads>>
    /\ ThreadVarsUnchanged

\* line 155
GetModelTest(t) ==
    /\ threads[t].pc = "test"
    /\ threads' = [threads EXCEPT ![t].pc =
                      IF get_model_slot_is_None(threads[t].model_name, threads[t].version)
                      THEN "load" ELSE "return"]
    /\ UNCHANGED <<_MODELS_CACHE, loads>>
    /\ ThreadVarsUnchanged

\* line 156
GetModelLoad(t) ==
    /\ threads[t].pc = "load"
    /\ Len(loads) < MaxLoads
    /\ LET parameters == _load_parameters(threads[t].model_name, threads[t].version)
       IN  /\ loads' = Append(loads, parameters.file_path)
           /\ threads' = [threads EXCEPT ![t] =
                  IF parameters.raised # "None"
                  THEN [pc |-> "done", model_name |-> threads[t].model_name,
                        arg |-> threads[t].arg, raised |-> parameters.raised,
                        ret |-> None]
                  ELSE [pc |-> "construct", model_name |-> threads[t].model_name,
                        arg |-> threads[t].arg, version |-> threads[t].version,
                        parameters |-> parameters.val[1], oid |-> Len(loads) + 1]]
    /\ UNCHANGED _MODELS_CACHE
    /\ ThreadVarsUnchanged

\* line 157, the call of the constructor
GetModelConstruct(t) ==
    /\ threads[t].pc = "construct"
    /\ LET model == Construct(_MODEL_DEFS[threads[t].model_name].constructor,
                              threads[t].parameters, threads[t].oid)
       IN  threads' = [threads EXCEPT ![t] =
               IF model.raised # "None"
               THEN [pc |-> "done", model_name |-> threads[t].model_name,
                     arg |-> threads[t].arg, raised |-> model.raised, ret |-> None]
               ELSE [pc |-> "store", model_name |-> threads[t].model_name,
                     arg |-> threads[t].arg, version |-> threads[t].version,
                     model |-> model.val]]
    /\ UNCHANGED <<_MODELS_CACHE, loads>>
    /\ ThreadVarsUnchanged

\* line 157, the store in the slot
GetModelStore(t) ==
    /\ threads[t].pc = "store"
    /\ _MODELS_CACHE' = get_model_store(threads[t].model_name, threads[t].version,
                                        threads[t].model)
    /\ threads' = [threads EXCEPT ![t] =
                      [pc |-> "return", model_name |-> threads[t].model_name,
                       arg |-> threads[t].arg, version |-> threads[t].version]]
    /\ UNCHANGED loads
    /\ ThreadVarsUnchanged

\* line 161
GetModelReturn(t) ==
    /\ threads[t].pc = "return"
    /\ threads' = [threads EXCEPT ![t] =
                      [pc |-> "done", model_name |-> threads[t].model_name,
                       arg |-> threads[t].arg, version |-> threads[t].version,
                       raised |-> "None",
                       ret |-> get_model_return(threads[t].model_name,
                                                threads[t].version)]]
    /\ UNCHANGED <<_MODELS_CACHE, loads>>
    /\ ThreadVarsUnchanged

\* the caller of thread t has its answer; the thread is free again
GetModelDone(t) ==
    /\ threads[t].pc = "done"
    /\ threads' = [threads EXCEPT ![t] = ThreadIdle]
    /\ UNCHANGED <<_MODELS_CACHE, loads>>
    /\ ThreadVarsUnchanged

NextRace ==
    \/ LoaderRegisterModel
    \/ \E t \in Threads : GetModelCall(t)
    \/ \E t \in Threads : GetModelTest(t)
    \/ \E t \in Threads : GetModelLoad(t)
    \/ \E t \in Threads : GetModelConstruct(t)
    \/ \E t \in Threads : GetModelStore(t)
    \/ \E t \in Threads : GetModelReturn(t)
    \/ \E t \in Threads : GetModelDone(t)

SpecRace == Init /\ [][NextRace]_vars

\* the parameters of a training round: two weights and a bias, or one weight
\* only, which fits no entry of the datasets
Weights == <<86, 1, 2>>
WeightsShort == <<86, 1>>
Bias == <<86, 0>>

\* a request posted to /train-lr
HttpTrainRound ==
    /\ \E dataset_id \in Ids, weights \in {Weights, WeightsShort} :
          LET data == [weights |-> b64encode(weights), bias |-> b64encode(Bias),
                       dataset_id |-> dataset_id]
              r == train_round(data)
          IN  /\ Commit(r)
              /\ resp' = [op |-> "train_round", via |-> "http", arg |-> data,
                          out |-> [status_code |-> r.status_code, json |-> r.json],
                          reg |-> r.reg]
    /\ UNCHANGED <<call, modelVars>>

Next ==
    \/ ClientRegisterContext
    \/ ClientGetContext
    \/ ClientRegisterDatasetBegin
    \/ ClientRegisterDatasetPost
    \/ ClientGetDataset
    \/ HttpRegisterContext
    \/ HttpRegisterDataset
    \/ HttpTrainRound

Spec == Init /\ [][Next]_vars

----------------------------------------------------------------------------
(* Client.train_logreg: the checks, the encryption of the dataset, its      *)
(* registration, then one request to /train-lr for each epoch.             *)

\* the epochs a call asks for
MaxEpochs == 3

\* ts.ckks_vector(context, numbers)
ckks_vector(context, numbers) ==
    CKKSVector(<<86 + (context.ser[2] \div 4)>> \o numbers)

\* context.has_secret_key()
has_secret_key(context) == context.ser[2] % 2 = 1

\* vector.decrypt()
decrypt(vec) == plain(vec)

TrainArg(context, X, Y, weights, bias, epochs) ==
    [context |-> context, X |-> X, Y |-> Y, weights |-> weights, bias |-> bias,
     epochs |-> epochs]

\* Mutant: the context is not asked for its secret key.
train_logreg_checks_noKeyTest(arg) ==
    IF arg.epochs.type # "int" THEN "TypeError"
    ELSE IF arg.epochs.v < 1 THEN "ValueError"
    ELSE IF Len(arg.X) # Len(arg.Y) THEN "ValueError"
    ELSE IF Len(arg.X) = 0 THEN "IndexError"
    ELSE IF Len(arg.weights) # Len(arg.X[1]) THEN "AssertionError"
    ELSE "None"

\* train_logreg, lines 356-372: the exception its checks raise, "None" when
\* they pass
train_logreg_checks(arg) ==
    IF arg.epochs.type # "int" THEN "TypeError"
    ELSE IF arg.epochs.v < 1 THEN "ValueError"
    ELSE IF Len(arg.X) # Len(arg.Y) THEN "ValueError"
    ELSE IF ~has_secret_key(arg.context) THEN "ValueError"
    ELSE IF Len(arg.X) = 0 THEN "IndexError"
    ELSE IF Len(arg.weights) # Len(arg.X[1]) THEN "AssertionError"
    ELSE "None"

\* lines 393-398: the entries of zip(X, Y), encrypted
train_logreg_encrypt(arg) ==
    LET pairs == zip(arg.X, arg.Y)
    IN  [enc_X |-> [i \in DOMAIN pairs |-> ckks_vector(arg.context, pairs[i][1])],
         enc_Y |-> [i \in DOMAIN pairs |-> ckks_vector(arg.context, <<pairs[i][2]>>)]]

\* the body of the answer of /train-lr as the client reads it: the two
\* updates as base64 of serialized vectors.  The numbers of an update come
\* out of the homomorphic training; the model draws them from few small ones.
TrainLrJson(enc_weights, update) ==
    [weights_update |-> b64encode(<<enc_weights.ser[1]>> \o update.weights),
     bias_update |-> b64encode(<<enc_weights.ser[1]>> \o update.bias)]

\* Client._train_logreg from the response r on: the exception of a status
\* that is not 200, or the two strings of the body
Client_train_logreg_response(r, resp_json) ==
    IF r.status_code # 200 THEN RaisedOn(r)
    ELSE Outcome("None", Some(<<resp_json.weights_update, resp_json.bias_update>>),
                 200, r.CONTEXTS, r.DATASETS, r.reg)

\* Client._train_logreg(context, enc_weights, enc_bias, dataset_id).  Its
\* requests.post stands in no try: when the server cannot be reached the
\* exception of requests leaves the method as it is, not the built-in
\* ConnectionError the other methods raise in its place.
Client_train_logreg(enc_weights, enc_bias, dataset_id, up, update) ==
    IF ~up THEN RaisedLocally("requests.exceptions.ConnectionError")
    ELSE Client_train_logreg_response(
             train_round([weights |-> b64encode(serialized(enc_weights)),
                          bias |-> b64encode(serialized(enc_bias)),
                          dataset_id |-> dataset_id]),
             TrainLrJson(enc_weights, update))

\* Mutant: the updates are decrypted and dropped.
train_logreg_update_dropped(weights, weights_update) ==
    weights

\* [w + u for w, u in zip(weights, weights_update.decrypt())]
train_logreg_update(weights, weights_update) ==
    [i \in DOMAIN zip(weights, weights_update) |-> weights[i] + weights_update[i]]

\* Mutant: the bias keeps its value.
train_logreg_update_bias_kept(bias, bias_update) ==
    <<bias[1]>>

\* [bias[0] + bias_update.decrypt()[0]]
train_logreg_update_bias(bias, bias_update) ==
    <<bias[1] + bias_update[1]>>

\* lines 413-418: the updates of the answer out, deserialized, decrypted and
\* added to the parameters; request is the request that was sent
train_logreg_apply(context, weights, bias, request, out) ==
    LET ser_weights == b64decode(out.ret[1][1])
        ser_bias == b64decode(out.ret[1][2])
        weights_update == ckks_vector_from(context, ser_weights.val)
        bias_update == ckks_vector_from(context, ser_bias.val)
    IN  IF out.raised # "None"
        THEN [out |-> out, request |-> request, weights |-> weights, bias |-> bias]
        ELSE IF ser_weights.raised # "None" \/ ser_bias.raised # "None"
        THEN [out |-> [out EXCEPT !.raised = "Error", !.ret = None], request |-> request,
              weights |-> weights, bias |-> bias]
        ELSE IF weights_update.raised # "None" \/ bias_update.raised # "None"
        THEN [out |-> [out EXCEPT !.raised = "ValueError", !.ret = None],
              request |-> request, weights |-> weights, bias |-> bias]
        ELSE [out |-> out, request |-> request,
              weights |-> train_logreg_update(weights, decrypt(weights_update.val[1])),
              bias |-> train_logreg_update_bias(bias, decrypt(bias_update.val[1]))]

\* the request of a turn, with the status and the updates it was answered with
TrainRequest(weights, bias, dataset_id, update, out) ==
    [op |-> "train-lr", dataset_id |-> dataset_id, weights |-> weights,
     bias |-> bias, status_code |-> out.status_code,
     answer |-> IF out.raised = "None" THEN Some(update) ELSE None]

\* the request of a turn and what train_logreg_apply makes of its answer
train_logreg_answered(context, weights, bias, dataset_id, update, out) ==
    train_logreg_apply(context, weights, bias,
                       TrainRequest(weights, bias, dataset_id, update, out), out)

\* lines 406-418, one turn of the loop: the request, and the parameters with
\* the decrypted updates added
train_logreg_epoch(context, weights, bias, dataset_id, up, update) ==
    train_logreg_answered(context, weights, bias, dataset_id, update,
                          Client_train_logreg(ckks_vector(context, weights),
                                              ckks_vector(context, bias),
                                              dataset_id, up, update))

\* the calls of train_logreg: good ones for each number of epochs, then one
\* or two for each check
TrainData == [X |-> <<<<0, 1>>, <<1, 1>>>>, Y |-> <<1, 0>>]

TrainArgs ==
    {TrainArg(TenSEALContext(CtxPrivate), TrainData.X, TrainData.Y, <<0, 1>>, <<0>>,
              PyInt(e)) : e \in -1..MaxEpochs}
    \cup {TrainArg(TenSEALContext(CtxPrivate), TrainData.X, TrainData.Y, <<0, 1>>, <<0>>,
                   [type |-> "float", v |-> 2]),
          TrainArg(TenSEALContext(CtxPrivate), TrainData.X, <<1>>, <<0, 1>>, <<0>>,
                   PyInt(1)),
          TrainArg(TenSEALContext(CtxPublic), TrainData.X, TrainData.Y, <<0, 1>>, <<0>>,
                   PyInt(2)),
          TrainArg(TenSEALContext(CtxPublic), TrainData.X, <<1>>, <<0, 1>>, <<0>>,
                   PyInt(0)),
          TrainArg(TenSEALContext(CtxPrivate), <<>>, <<>>, <<0, 1>>, <<0>>, PyInt(1)),
          TrainArg(TenSEALContext(CtxPrivate), TrainData.X, TrainData.Y, <<1>>, <<0>>,
                   PyInt(1))}

\* the updates a round of training answers with
Updates == {[weights |-> <<1, 0>>, bias |-> <<1>>], [weights |-> <<0, 2>>, bias |-> <<0>>]}

\* what the caller of train_logreg sees, with the history of the call: the
\* vectors it encrypted, the requests it sent, and the registrations the
\* server had performed when the call began
TrainSeen(arg, raised, ret, encrypted_nb, requests, before) ==
    [op |-> "train_logreg", via |-> "client", arg |-> arg,
     out |-> [raised |-> raised, ret |-> ret], encrypted |-> encrypted_nb,
     requests |-> requests, before |-> before, reg |-> None]

\* a caller enters train_logreg: the checks and the encryption of the dataset
TrainLogreg ==
    /\ call = Idle
    /\ nregs + 1 < MaxRegs
    /\ \E arg \in TrainArgs :
          IF train_logreg_checks(arg) # "None"
          THEN /\ resp' = TrainSeen(arg, train_logreg_checks(arg), None, 0, <<>>, nregs)
               /\ call' = Idle
          ELSE /\ resp' = TrainSeen(arg, "pending", None, 2 * Len(arg.X), <<>>, nregs)
               /\ call' = [pc |-> "train_register_context", arg |-> arg,
                           enc |-> train_logreg_encrypt(arg)]
    /\ UNCHANGED <<CONTEXTS, DATASETS, issued, nregs, modelVars>>

\* register_dataset(enc_X, enc_Y, context=context, batch_size=1), up to
\* the registration of the context
TrainRegisterContext ==
    /\ call.pc = "train_register_context"
    /\ \E up \in BOOLEAN, rid \in get_random_id :
          LET out == Client_register_dataset_begin(call.enc.enc_X, call.enc.enc_Y,
                                                   Some(call.arg.context), None,
                                                   PyInt(1), up, rid)
              requests == Append(resp.requests,
                                 [op |-> "register_context",
                                  status_code |-> out.status_code, ret |-> out.ret])
          IN  /\ Commit(out)
              /\ IF out.raised = "None"
                 THEN /\ call' = [pc |-> "train_register_dataset", arg |-> call.arg,
                                  enc |-> call.enc, context_id |-> out.ret[1]]
                      /\ resp' = [resp EXCEPT !.requests = requests]
                 ELSE /\ call' = Idle
                      /\ resp' = TrainSeen(call.arg, out.raised, None, resp.encrypted,
                                           requests, resp.before)
    /\ UNCHANGED modelVars

\* register_dataset goes on: the registration of the dataset
TrainRegisterDataset ==
    /\ call.pc = "train_register_dataset"
    /\ \E up \in BOOLEAN, rid \in get_random_id :
          LET out == Client_register_dataset_post(call.enc.enc_X, call.enc.enc_Y,
                                                  call.context_id, PyInt(1), up, rid)
              requests == Append(resp.requests,
                                 [op |-> "register_dataset",
                                  status_code |-> out.status_code, ret |-> out.ret])
          IN  /\ Commit(out)
              /\ IF out.raised = "None"
                 THEN /\ call' = [pc |-> "train_epoch", arg |-> call.arg,
                                  dataset_id |-> out.ret[1][2], epoch |-> 0,
                                  weights |-> call.arg.weights, bias |-> call.arg.bias]
                      /\ resp' = [resp EXCEPT !.requests = requests]
                 ELSE /\ call' = Idle
                      /\ resp' = TrainSeen(call.arg, out.raised, None, resp.encrypted,
                                           requests, resp.before)
    /\ UNCHANGED modelVars

\* Mutant: the loop has no last turn.
range_exhausted_never(turns, epochs) ==
    FALSE

\* for _ in range(epochs): after turns turns the loop is over
range_exhausted(turns, epochs) ==
    turns = epochs

\* the end of a turn: the call raises, returns after the last epoch, or goes
\* on with the next one
TrainEpochEnd(turn) ==
    /\ Commit(turn.out)
    /\ IF turn.out.raised # "None"
       THEN /\ call' = Idle
            /\ resp' = TrainSeen(call.arg, turn.out.raised, None, resp.encrypted + 2,
                                 Append(resp.requests, turn.request), resp.before)
       ELSE IF range_exhausted(call.epoch + 1, call.arg.epochs.v)
       THEN /\ call' = Idle
            /\ resp' = TrainSeen(call.arg, "None", Some(<<turn.weights, turn.bias>>),
                                 resp.encrypted + 2,
                                 Append(resp.requests, turn.request), resp.before)
       ELSE /\ call' = [call EXCEPT !.epoch = call.epoch + 1,
                                    !.weights = turn.weights,
                                    !.bias = turn.bias]
            /\ resp' = [resp EXCEPT !.requests = Append(resp.requests, turn.request),
                                    !.encrypted = resp.encrypted + 2]

\* one turn of the loop over the epochs; after the last one the call returns
TrainEpoch ==
    /\ call.pc = "train_epoch"
    /\ call.epoch < call.arg.epochs.v
    /\ \E up \in BOOLEAN, update \in Updates :
          TrainEpochEnd(train_logreg_epoch(call.arg.context, call.weights, call.bias,
                                           call.dataset_id, up, update))
    /\ UNCHANGED modelVars

NextTrain ==
    \/ TrainLogreg
    \/ TrainRegisterContext
    \/ TrainRegisterDataset
    \/ TrainEpoch

SpecTrain == Init /\ [][NextTrain]_vars

----------------------------------------------------------------------------
(* train_logreg against a server that is reachable: every request of the    *)
(* call is answered.  The call is one sequential program and each request  *)
(* blocks until its answer, so a step that can be taken is taken.           *)

\* register_dataset(enc_X, enc_Y, context=context, batch_size=1), up to
\* the registration of the context, which is answered
TrainRegisterContextUp ==
    /\ call.pc = "train_register_context"
    /\ \E rid \in get_random_id :
          LET out == Client_register_dataset_begin(call.enc.enc_X, call.enc.enc_Y,
                                                   Some(call.arg.context), None,
                                                   PyInt(1), TRUE, rid)
              requests == Append(resp.requests,
                                 [op |-> "register_context",
                                  status_code |-> out.status_code, ret |-> out.ret])
          IN  /\ Commit(out)
              /\ IF out.raised = "None"
                 THEN /\ call' = [pc |-> "train_register_dataset", arg |-> call.arg,
                                  enc |-> call.enc, context_id |-> out.ret[1]]
                      /\ resp' = [resp EXCEPT !.requests = requests]
                 ELSE /\ call' = Idle
                      /\ resp' = TrainSeen(call.arg, out.raised, None, resp.encrypted,
                                           requests, resp.before)
    /\ UNCHANGED modelVars

\* the registration of the dataset, which is answered
TrainRegisterDatasetUp ==
    /\ call.pc = "train_register_dataset"
    /\ \E rid \in get_random_id :
          LET out == Client_register_dataset_post(call.enc.enc_X, call.enc.enc_Y,
                                                  call.context_id, PyInt(1), TRUE, rid)
              requests == Append(resp.requests,
                                 [op |-> "register_dataset",
                                  status_code |-> out.status_code, ret |-> out.ret])
          IN  /\ Commit(out)
              /\ IF out.raised = "None"
                 THEN /\ call' = [pc |-> "train_epoch", arg |-> call.arg,
                                  dataset_id |-> out.ret[1][2], epoch |-> 0,
                                  weights |-> call.arg.weights, bias |-> call.arg.bias]
                      /\ resp' = [resp EXCEPT !.requests = requests]
                 ELSE /\ call' = Idle
                      /\ resp' = TrainSeen(call.arg, out.raised, None, resp.encrypted,
                                           requests, resp.before)
    /\ UNCHANGED modelVars

\* one turn of the loop, its request answered
TrainEpochUp ==
    /\ call.pc = "train_epoch"
    /\ call.epoch < call.arg.epochs.v
    /\ \E update \in Updates :
          TrainEpochEnd(train_logreg_epoch(call.arg.context, call.weights, call.bias,
                                           call.dataset_id, TRUE, update))
    /\ UNCHANGED modelVars

NextTrainUp ==
    \/ TrainLogreg
    \/ TrainRegisterContextUp
    \/ TrainRegisterDatasetUp
    \/ TrainEpochUp

\* The caller's side of the last two steps, for a request that is answered
\* with success: what train_logreg does then, without the computation of the
\* server.  The caller's program goes on when an answer is there, so these
\* are the steps that cannot wait for ever.
TrainDatasetAnswered ==
    /\ call.pc = "train_register_dataset"
    /\ \E rid \in get_random_id :
          \E saved \in {save_dataset(call.context_id,
                                     [i \in DOMAIN call.enc.enc_X |->
                                         serialized(call.enc.enc_X[i])],
                                     [i \in DOMAIN call.enc.enc_Y |->
                                         serialized(call.enc.enc_Y[i])], 1, rid)} :
             /\ CONTEXTS' = CONTEXTS
             /\ DATASETS' = saved.DATASETS
             /\ issued' = issued \cup {<<"dataset", rid>>}
             /\ nregs' = nregs + 1
             /\ call' = [pc |-> "train_epoch", arg |-> call.arg, dataset_id |-> rid,
                         epoch |-> 0, weights |-> call.arg.weights,
                         bias |-> call.arg.bias]
             /\ resp' = [resp EXCEPT !.requests =
                            Append(resp.requests,
                                   [op |-> "register_dataset", status_code |-> 200,
                                    ret |-> Some(<<call.context_id, rid>>)])]
    /\ UNCHANGED modelVars

TrainEpochAnswered ==
    /\ call.pc = "train_epoch"
    /\ call.epoch < call.arg.epochs.v
    /\ \E update \in Updates :
          \E resp_json \in {TrainLrJson(ckks_vector(call.arg.context, call.weights),
                                        update)} :
          \E out \in {Outcome("None",
                              Some(<<resp_json.weights_update, resp_json.bias_update>>),
                              200, CONTEXTS, DATASETS, None)} :
          \E turn \in {train_logreg_answered(call.arg.context, call.weights, call.bias,
                                             call.dataset_id, update, out)} :
             TrainEpochEnd(turn)
    /\ UNCHANGED modelVars

SpecTrainUp ==
    /\ Init
    /\ [][NextTrainUp]_vars
    /\ WF_vars(TrainRegisterContextUp)
    /\ WF_vars(TrainDatasetAnswered)
    /\ WF_vars(TrainEpochAnswered)

----------------------------------------------------------------------------
(* One training round as a function of the parameters and the dataset: the  *)
(* registry holds a context and a dataset of batch_size 1, and callers post *)
(* parameters to /train-lr.                                                *)

\* the entries of the longest dataset
MaxExamples == 2

\* examples of two features with their labels
TrainExamples ==
    {<<x, y>> : x \in {<<0, 1>>, <<1, 1>>, <<2, 0>>}, y \in {0, 1}}

\* the datasets of 1 to MaxExamples of them, as lists of examples
TrainDatasets == UNION {[1..n -> TrainExamples] : n \in 1..MaxExamples}

\* what save_dataset stores of such a dataset: the serialized vectors
StoredDataset(ctx_id, examples) ==
    <<ctx_id, [k \in DOMAIN examples |-> <<86>> \o examples[k][1]],
      [k \in DOMAIN examples |-> <<86, examples[k][2]>>], 1>>

\* a dataset is registered with its context; under the other id there is
\* another dataset or none
InitRound ==
    /\ \E cid \in Ids, did \in Ids, other \in BOOLEAN :
       \E examples \in TrainDatasets :
          /\ cid = did
          /\ CONTEXTS = DictSet(EmptyDict, cid, CtxPublic)
          /\ DATASETS =
                IF other
                THEN DictSet(DictSet(EmptyDict, CHOOSE id \in Ids : id # did,
                                     <<cid, <<Vec2>>, <<Lab1>>, 1>>),
                             did, StoredDataset(cid, examples))
                ELSE DictSet(EmptyDict, did, StoredDataset(cid, examples))
          /\ resp = [op |-> "none", reg |-> None, dataset_id |-> did]
    /\ issued = {<<"context", id>> : id \in DOMAIN CONTEXTS}
                \cup {<<"dataset", id>> : id \in DOMAIN DATASETS}
    /\ nregs = Cardinality(issued)
    /\ call = Idle
    /\ _MODEL_DEFS = EmptyDict
    /\ _MODELS_CACHE = EmptyDict
    /\ _DEFAULT_DATA_DIR = PackageDataDir
    /\ loads = <<>>
    /\ mresp = [op |-> "none"]
    /\ threads = [t \in Threads |-> ThreadIdle]

\* a request posted to /train-lr with weights and a bias up to MaxVal
HttpTrainRoundWith ==
    /\ \E w \in [1..2 -> 0..MaxVal], b \in 0..1 :
          LET data == [weights |-> b64encode(<<86>> \o w), bias |-> b64encode(<<86, b>>),
                       dataset_id |-> resp.dataset_id]
              r == train_round(data)
          IN  /\ Commit(r)
              /\ resp' = [op |-> "train_round", via |-> "http", arg |-> data,
                          out |-> [status_code |-> r.status_code, json |-> r.json],
                          reg |-> r.reg, dataset_id |-> resp.dataset_id]
    /\ UNCHANGED <<call, modelVars>>

NextRound == HttpTrainRoundWith

SpecRound == InitRound /\ [][NextRound]_vars

----------------------------------------------------------------------------
(* Two callers run train_logreg at the same time, each with its own context *)
(* and dataset and one epoch.  The steps of a call are its two              *)
(* registrations and its round; the steps of the two calls interleave.     *)
(* Here call and resp hold one entry for each caller.                      *)

Callers == {1, 2}

\* the arguments of the two calls: contexts with different keys, datasets
\* of one example each
PairArgs ==
    <<TrainArg(TenSEALContext(CtxPrivate), <<<<0, 1>>>>, <<1>>, <<1, 0>>, <<0>>, PyInt(1)),
      TrainArg(TenSEALContext(<<67, 1>>), <<<<1, 1>>>>, <<0>>, <<1, 0>>, <<0>>, PyInt(1))>>

\* Mutant: the first value of the pair is taken for the id of the dataset.
returned_dataset_id_first(ret) ==
    ret[1]

\* _, dataset_id = self.register_dataset(...)
returned_dataset_id(ret) ==
    ret[2]

\* weights and bias with the updates of a round added, as fractions
PairFinal(arg, update) ==
    [weights |-> [i \in DOMAIN arg.weights |->
                     [num |-> arg.weights[i] * update.delta_weights.den
                              + update.delta_weights.num[i],
                      den |-> update.delta_weights.den]],
     bias |-> [num |-> arg.bias[1] * update.delta_bias.den + update.delta_bias.num[1],
               den |-> update.delta_bias.den]]

InitPair ==
    /\ CONTEXTS = EmptyDict
    /\ DATASETS = EmptyDict
    /\ issued = {}
    /\ nregs = 0
    /\ call = [c \in Callers |-> [pc |-> "train_register_context"]]
    /\ resp = [c \in Callers |-> [raised |-> "pending", ret |-> None]]
    /\ _MODEL_DEFS = EmptyDict
    /\ _MODELS_CACHE = EmptyDict
    /\ _DEFAULT_DATA_DIR = PackageDataDir
    /\ loads = <<>>
    /\ mresp = [op |-> "none"]
    /\ threads = [t \in Threads |-> ThreadIdle]

\* caller c raises exc, or goes on to the step pc with the fields of next
PairGoesOn(c, out, next) ==
    /\ Commit(out)
    /\ IF out.raised # "None"
       THEN /\ call' = [call EXCEPT ![c].pc = "done"]
            /\ resp' = [resp EXCEPT ![c] = [raised |-> out.raised, ret |-> None]]
       ELSE /\ call' = [call EXCEPT ![c] = next]
            /\ resp' = resp

\* the registration of the context of caller c
PairRegisterContext(c) ==
    /\ call[c].pc = "train_register_context"
    /\ \E rid \in get_random_id :
       \E out \in {Client_register_dataset_begin(
                       train_logreg_encrypt(PairArgs[c]).enc_X,
                       train_logreg_encrypt(PairArgs[c]).enc_Y,
                       Some(PairArgs[c].context), None, PyInt(1), TRUE, rid)} :
          PairGoesOn(c, out, [pc |-> "train_register_dataset", context_id |-> out.ret[1]])
    /\ UNCHANGED modelVars

\* the registration of its dataset
PairRegisterDataset(c) ==
    /\ call[c].pc = "train_register_dataset"
    /\ \E rid \in get_random_id :
       \E out \in {Client_register_dataset_post(
                       train_logreg_encrypt(PairArgs[c]).enc_X,
                       train_logreg_encrypt(PairArgs[c]).enc_Y,
                       call[c].context_id, PyInt(1), TRUE, rid)} :
          PairGoesOn(c, out, [pc |-> "train_epoch", context_id |-> call[c].context_id,
                              dataset_id |-> returned_dataset_id(out.ret[1])])
    /\ UNCHANGED modelVars

\* its round: the request to /train-lr and the parameters it returns
PairRound(c) ==
    /\ call[c].pc = "train_epoch"
    /\ \E r \in {train_round(
                    [weights |-> b64encode(serialized(ckks_vector(PairArgs[c].context,
                                                                  PairArgs[c].weights))),
                     bias |-> b64encode(serialized(ckks_vector(PairArgs[c].context,
                                                               PairArgs[c].bias))),
                     dataset_id |-> call[c].dataset_id])} :
          /\ Commit(r)
          /\ call' = [call EXCEPT ![c].pc = "done"]
          /\ resp' = [resp EXCEPT ![c] =
                         IF r.status_code # 200
                         THEN [raised |-> _handle_error_response(r), ret |-> None]
                         ELSE [raised |-> "None",
                               ret |-> Some(PairFinal(PairArgs[c],
                                                [delta_weights |-> r.json.weights_update,
                                                 delta_bias |-> r.json.bias_update]))]]
    /\ UNCHANGED modelVars

NextPair ==
    \/ \E c \in Callers : PairRegisterContext(c)
    \/ \E c \in Callers : PairRegisterDataset(c)
    \/ \E c \in Callers : PairRound(c)

SpecPair == InitPair /\ [][NextPair]_vars

----------------------------------------------------------------------------
(* Properties of the registry (specification Spec).                        *)

\* the last call was this client call, and it returned
ClientReturned(op) ==
    resp.op = op /\ resp.via = "client" /\ resp.out.raised = "None"

\* the last request was this request sent as is, and it was answered 200
HttpAnswered200(op) ==
    resp.op = op /\ resp.via = "http" /\ resp.out.status_code = 200

\* the body of the answer GET /contexts/ gives for an identifier
ContextAnswer(id) == get_context(id).json

\* a registered context is returned as it was registered, by the route and
\* by the client
C1_RoundTrip ==
    /\ ClientReturned("register_context") =>
          LET id == resp.out.ret[1]
          IN  /\ get_context(id).status_code = 200
              /\ b64decode(ContextAnswer(id).context)
                    = [raised |-> "None", val |-> serialized(resp.arg)]
              /\ Client_get_context(id, TRUE).ret
                    = Some(TenSEALContext(serialized(resp.arg)))
    /\ HttpAnswered200("register_context") =>
          LET id == resp.out.json.context_id
          IN  /\ get_context(id).status_code = 200
              /\ b64decode(ContextAnswer(id).context) = b64decode(resp.arg.context)

\* a step leaves the answer for every registered context as it is
C1_Persists ==
    \A id \in DOMAIN CONTEXTS : ContextAnswer(id)' = ContextAnswer(id)

\* a step leaves the answer for a registered context as it is, unless the
\* step registers a context under the same identifier
C1_PersistsUnlessSameId ==
    \A id \in DOMAIN CONTEXTS :
        \/ ContextAnswer(id)' = ContextAnswer(id)
        \/ /\ resp'.reg # None
           /\ resp'.reg[1].kind = "context"
           /\ resp'.reg[1].id = id
           /\ ContextAnswer(id)' = [context |-> b64encode(resp'.reg[1].val)]

\* C1 as stated: get_context(register_context(b)) returns b, and keeps
\* returning b after any sequence of registry operations.
C1_Original == []C1_RoundTrip /\ [][C1_Persists]_vars

\* C1 amended: get_context(register_context(b)) returns b, and keeps
\* returning b after any sequence of registry operations in which no later
\* register_context is given the same random identifier; such a registration
\* makes the identifier return the later blob.
C1_ContextRoundTrip == []C1_RoundTrip /\ [][C1_PersistsUnlessSameId]_vars

\* a context is read back after a dataset was registered in between
C1_Witness ==
    /\ ClientReturned("get_context")
    /\ resp.out.ret = Some(TenSEALContext(CtxPrivate))
    /\ DOMAIN DATASETS # {}

\* the first n elements of a list
Take(list, n) == SubSeq(list, 1, n)

\* the serializations of a list of vectors
Serials(list) == [i \in DOMAIN list |-> serialized(list[i])]

\* after Client.register_dataset returned (context_id, dataset_id), what
\* Client.get_dataset(dataset_id) returns holds the entries X and Y given
C2_ReadBack(X, Y) ==
    ClientReturned("register_dataset") =>
        LET ids == resp.out.ret[1]
            got == Client_get_dataset(ids[2], TenSEALContext(CtxPublic), TRUE)
        IN  /\ got.raised = "None"
            /\ got.ret[1][1] = ids[1]
            /\ Serials(got.ret[1][2]) = Serials(X)
            /\ Serials(got.ret[1][3]) = Serials(Y)
            /\ got.ret[1][4] = resp.arg.batch_size.v
            /\ DATASETS[ids[2]][1] = ids[1]
            /\ resp.arg.context # None => ids[1] \in DOMAIN CONTEXTS
            /\ resp.arg.context_id # None => ids[1] = resp.arg.context_id[1]

\* while the dataset request is still to be sent, the context passed is
\* registered already and the call has stored no dataset
C2_ContextFirst ==
    (call.pc = "post_dataset" /\ call.arg.context # None) =>
        /\ call.context_id \in DOMAIN CONTEXTS
        /\ <<"context", call.context_id>> \in issued
        /\ resp.op = "register_dataset" /\ resp.via = "client" =>
              (resp.reg # None /\ resp.reg[1].kind = "context")

\* C2 as stated: the dataset read back has the same X and Y entries.
C2_Original ==
    /\ C2_ReadBack(resp.arg.enc_X, resp.arg.enc_Y)
    /\ C2_ContextFirst

\* What the code does keep of C2: the dataset read back has the same context
\* id and batch_size and, in the same order, the X and Y entries up to the
\* length of the shorter of the two lists; a context blob is registered
\* before the dataset is stored and the context_id returned is the one the
\* stored dataset references.
C2_DatasetRoundTrip ==
    /\ LET n == Min(Len(resp.arg.enc_X), Len(resp.arg.enc_Y))
       IN  ClientReturned("register_dataset") =>
               C2_ReadBack(Take(resp.arg.enc_X, n), Take(resp.arg.enc_Y, n))
    /\ C2_ContextFirst

\* register_dataset returned for two X entries and one Y entry, and stored
\* one entry of each
C2_Witness ==
    /\ ClientReturned("register_dataset")
    /\ resp.arg.context # None
    /\ Len(resp.arg.enc_X) = 2
    /\ Len(resp.arg.enc_Y) = 1
    /\ Len(DATASETS[resp.out.ret[1][2]][2]) = 1

\* an identifier no registration of the kind returned is answered 404, which
\* the client raises as ResourceNotFound
C3_NotFound ==
    \A id \in Ids :
        /\ <<"context", id>> \notin issued =>
              /\ get_context(id).status_code = 404
              /\ Client_get_context(id, TRUE).raised = "ResourceNotFound"
        /\ <<"dataset", id>> \notin issued =>
              /\ get_dataset(id).status_code = 404
              /\ Client_get_dataset(id, TenSEALContext(CtxPublic), TRUE).raised
                    = "ResourceNotFound"

\* a lookup that failed has left the registry as it was
C3_FailedLookup ==
    (resp'.op \in {"get_context", "get_dataset"} /\ resp'.out.raised # "None") =>
        UNCHANGED <<CONTEXTS, DATASETS, issued, nregs>>

\* C3: get_context and get_dataset fail with NotFound for every id that no
\* registration of that kind returned, a dataset id given to get_context and
\* a context id given to get_dataset included, and a failed lookup leaves
\* the registry unchanged.
C3_UnknownIdNotFound == []C3_NotFound /\ [][C3_FailedLookup]_vars

\* get_context was refused the identifier of a dataset
C3_Witness ==
    /\ resp.op = "get_context"
    /\ resp.out.raised = "ResourceNotFound"
    /\ resp.arg \in DOMAIN DATASETS
    /\ resp.arg \notin DOMAIN CONTEXTS

\* the last call was Client.register_dataset with both a context and a
\* context id, or with neither
C4_Case(r) ==
    /\ r.op = "register_dataset"
    /\ r.via = "client"
    /\ \/ r.arg.context # None /\ r.arg.context_id # None
       \/ r.arg.context = None /\ r.arg.context_id = None

C4_Rejected ==
    C4_Case(resp) =>
        /\ resp.out.raised \in {"ValueError", "TypeError"}
        /\ resp.out.status_code = 0
        /\ call = Idle

C4_NoEffect ==
    C4_Case(resp') => UNCHANGED <<CONTEXTS, DATASETS, issued, nregs>>

\* C4: register_dataset with both a context and a context id, or with
\* neither, raises the invalid-argument error (ValueError) before any
\* request: no context is registered and no dataset is stored.
C4_ContextXorContextId == []C4_Rejected /\ [][C4_NoEffect]_vars

\* a call with both a context and a context id was rejected
C4_Witness ==
    /\ C4_Case(resp)
    /\ resp.arg.context # None
    /\ resp.out.raised = "ValueError"

\* C5 as stated: every dataset the registry holds has batch_size >= 1,
\* whether it was registered through the client or by a request sent to the
\* route itself.
C5_BatchSizePositive ==
    \A id \in DOMAIN DATASETS : DATASETS[id][4] >= 1

\* every identifier is 2 * TOKEN_LENGTH hexadecimal digits, the history of
\* identifiers is the keys of the two dictionaries, and there are no more
\* entries than registrations
C6_Keys ==
    /\ \A e \in issued :
          /\ Len(e[2]) = 2 * TOKEN_LENGTH
          /\ \A i \in DOMAIN e[2] : \E d \in DOMAIN HexDigits : HexDigits[d] = e[2][i]
    /\ DOMAIN CONTEXTS = {e[2] : e \in {x \in issued : x[1] = "context"}}
    /\ DOMAIN DATASETS = {e[2] : e \in {x \in issued : x[1] = "dataset"}}
    /\ Cardinality(issued) <= nregs

\* a registration adds its identifier to the keys of its own dictionary, and
\* nothing else to either
C6_Registers ==
    /\ nregs' = nregs + Len(resp'.reg) \/ UNCHANGED vars
    /\ nregs' # nregs =>
          LET e == resp'.reg[1]
          IN  /\ e.kind = "context" =>
                    /\ DOMAIN CONTEXTS' = DOMAIN CONTEXTS \cup {e.id}
                    /\ CONTEXTS'[e.id] = e.val
                    /\ DATASETS' = DATASETS
              /\ e.kind = "dataset" =>
                    /\ DOMAIN DATASETS' = DOMAIN DATASETS \cup {e.id}
                    /\ DATASETS'[e.id] = e.val
                    /\ CONTEXTS' = CONTEXTS

\* C6 as stated: no two generated identifiers collide, so no registration
\* overwrites an entry of an earlier one: there are as many identifiers, and
\* as many entries, as registrations.
C6_Original ==
    /\ Cardinality({e[2] : e \in issued}) = nregs
    /\ Cardinality(DOMAIN CONTEXTS) + Cardinality(DOMAIN DATASETS) = nregs

\* C6 amended: identifiers are random tokens of 64 hexadecimal digits that
\* are not compared with the identifiers in use, so two registrations can be
\* given the same one.  A registration stores its entry under its identifier
\* in the dictionary of its kind only: it overwrites an earlier entry exactly
\* when that identifier is a key of that dictionary already, and the other
\* dictionary is left as it is.
C6_IdentifiersUnchecked == []C6_Keys /\ [][C6_Registers]_vars

\* two registrations were given the same identifier
C6_Witness == nregs > Cardinality({e[2] : e \in issued})

\* no entry is removed
C7_Kept ==
    /\ DOMAIN CONTEXTS \subseteq DOMAIN CONTEXTS'
    /\ DOMAIN DATASETS \subseteq DOMAIN DATASETS'

\* a training round leaves the whole registry as it is
C7_TrainReadsOnly ==
    resp'.op = "train_round" => UNCHANGED <<CONTEXTS, DATASETS>>

C7_Immutable ==
    /\ \A id \in DOMAIN CONTEXTS : CONTEXTS'[id] = CONTEXTS[id]
    /\ \A id \in DOMAIN DATASETS : DATASETS'[id] = DATASETS[id]

C7_ImmutableUnlessSameId ==
    /\ \A id \in DOMAIN CONTEXTS :
          CONTEXTS'[id] # CONTEXTS[id] =>
              resp'.reg = Some([kind |-> "context", id |-> id, val |-> CONTEXTS'[id]])
    /\ \A id \in DOMAIN DATASETS :
          DATASETS'[id] # DATASETS[id] =>
              resp'.reg = Some([kind |-> "dataset", id |-> id, val |-> DATASETS'[id]])
    /\ resp'.reg = None => UNCHANGED <<CONTEXTS, DATASETS>>

\* C7 as stated: once stored under an id a value is never removed nor
\* changed by any later operation, and train_round leaves the registry
\* unchanged.
C7_Original == [][C7_Kept /\ C7_Immutable /\ C7_TrainReadsOnly]_vars

\* C7 amended: entries are never removed, and the value stored under an id
\* is changed by no lookup, no failed request and no train_round (which
\* leaves the whole registry unchanged), and by a registration only when that
\* registration is of the same kind and is given the same random identifier.
C7_RegistryStable ==
    [][C7_Kept /\ C7_ImmutableUnlessSameId /\ C7_TrainReadsOnly]_vars

\* a training round has computed its deltas from a stored dataset
C7_Witness ==
    /\ resp.op = "train_round"
    /\ resp.out.status_code = 200
    /\ resp.arg.dataset_id \in DOMAIN DATASETS

----------------------------------------------------------------------------
(* Properties of the model registry (specification SpecModels).            *)

\* a call of register_model that the documentation says must be refused
C8_Case(r) ==
    /\ r.op = "register_model"
    /\ \/ Len(r.arg.versions) = 0
       \/ ~isclass(r.arg.constructor_class)
       \/ ~issubclass(r.arg.constructor_class, "Model")
       \/ /\ r.arg.default_version # None
          /\ ~InList(r.arg.default_version[1], r.arg.versions)

C8_Rejected == C8_Case(mresp) => mresp.out.raised \in {"TypeError", "ValueError"}

C8_NoEffect == C8_Case(mresp') => UNCHANGED <<_MODEL_DEFS, _MODELS_CACHE, loads>>

\* C8: register_model raises the invalid-argument errors (TypeError,
\* ValueError) if versions is empty, if the constructor is not a Model class,
\* or if a default_version is given that is not in versions; the call then
\* leaves the model definitions and the cache unchanged.
C8_RegisterModelValidates == []C8_Rejected /\ [][C8_NoEffect]_vars

\* a default_version that is no version was refused while models are registered
C8_Witness ==
    /\ C8_Case(mresp)
    /\ mresp.out.raised = "ValueError"
    /\ Len(mresp.arg.versions) > 0
    /\ DOMAIN _MODEL_DEFS # {}

\* the versions of a list, as a set
VersionSet(versions) == {versions[i] : i \in DOMAIN versions}

\* the name register_model registers under
RegisteredName(arg) ==
    IF arg.model_name = None THEN arg.constructor_class.__name__ ELSE arg.model_name[1]

C9_Definitions ==
    /\ DOMAIN _MODELS_CACHE = DOMAIN _MODEL_DEFS
    /\ \A name \in DOMAIN _MODEL_DEFS :
          /\ Len(_MODEL_DEFS[name].versions) > 0
          /\ InList(_MODEL_DEFS[name].default_version, _MODEL_DEFS[name].versions)
          /\ DOMAIN _MODELS_CACHE[name] = VersionSet(_MODEL_DEFS[name].versions)
    /\ (mresp.op = "register_model" /\ mresp.out.raised = "None") =>
          LET name == RegisteredName(mresp.arg)
          IN  /\ name \in DOMAIN _MODEL_DEFS
              /\ _MODEL_DEFS[name].versions = mresp.arg.versions
              /\ mresp.arg.default_version = None =>
                    _MODEL_DEFS[name].default_version = mresp.arg.versions[1]
              /\ mresp.arg.default_version # None =>
                    _MODEL_DEFS[name].default_version = mresp.arg.default_version[1]
              /\ \A v \in DOMAIN _MODELS_CACHE[name] : _MODELS_CACHE[name][v] = None

\* a slot is filled by a get_model for its model and version, and by nothing else
C9_SlotFilledByGetModel ==
    \A name \in DOMAIN _MODELS_CACHE' :
        \A v \in DOMAIN _MODELS_CACHE'[name] :
            _MODELS_CACHE'[name][v] # None =>
                \/ /\ name \in DOMAIN _MODELS_CACHE
                   /\ v \in DOMAIN _MODELS_CACHE[name]
                   /\ _MODELS_CACHE[name][v] = _MODELS_CACHE'[name][v]
                \/ /\ mresp'.op = "get_model"
                   /\ mresp'.out.raised = "None"
                   /\ mresp'.arg.model_name = name
                   /\ mresp'.arg.version \in {None, Some(v)}
                   /\ mresp'.out.ret = _MODELS_CACHE'[name][v]

\* C9: after any sequence of register_model calls every registered definition
\* has a non-empty versions list, a default_version that is one of them
\* (versions[0] when none was given) and one cache slot per version; a slot
\* is empty until the first get_model for that version.
C9_DefinitionsWellFormed == []C9_Definitions /\ [][C9_SlotFilledByGetModel]_vars

\* a model was registered without a default version, with two versions
C9_Witness ==
    /\ mresp.op = "register_model"
    /\ mresp.out.raised = "None"
    /\ mresp.arg.default_version = None
    /\ Len(mresp.arg.versions) = 2
    /\ \E name \in DOMAIN _MODELS_CACHE :
          \E v \in DOMAIN _MODELS_CACHE[name] : _MODELS_CACHE[name][v] # None

\* a lookup of a name that is not registered, or of a version the model
\* does not have
C10_Case(r) ==
    \/ /\ r.op \in {"get_model", "get_model_def"}
       /\ r.arg.model_name \notin DOMAIN _MODEL_DEFS
    \/ /\ r.op = "get_model"
       /\ r.arg.model_name \in DOMAIN _MODEL_DEFS
       /\ r.arg.version # None
       /\ ~InList(r.arg.version[1], _MODEL_DEFS[r.arg.model_name].versions)

C10_Raises ==
    C10_Case(mresp) =>
        /\ mresp.out.raised = "ModelNotFound"
        /\ mresp.out.ret = None
        /\ mresp.arg.model_name \notin DOMAIN _MODEL_DEFS =>
              mresp.out.msg = <<"Model", mresp.arg.model_name,
                                "can't be found in this server">>

C10_NoLoad ==
    (mresp'.op \in {"get_model", "get_model_def"} /\ mresp'.out.raised = "ModelNotFound") =>
        UNCHANGED <<_MODEL_DEFS, _MODELS_CACHE, loads>>

\* C10: get_model raises ModelNotFound when the name is not registered (the
\* message then says the model "can't be found") or the version given is not
\* one of its versions, and get_model_def raises ModelNotFound for an unknown
\* name; these calls open no parameter file and leave the cache unchanged.
C10_UnknownModelNotFound == []C10_Raises /\ [][C10_NoLoad]_vars

\* a version the model does not have was asked for, of a model in the cache
C10_Witness ==
    /\ mresp.op = "get_model"
    /\ mresp.out.raised = "ModelNotFound"
    /\ mresp.arg.model_name \in DOMAIN _MODEL_DEFS
    /\ \E v \in DOMAIN _MODELS_CACHE[mresp.arg.model_name] :
          _MODELS_CACHE[mresp.arg.model_name][v] # None

\* the version get_model resolves a version argument to
ResolvedVersion(name, version) ==
    IF version = None THEN _MODEL_DEFS[name].default_version ELSE version[1]

\* the next step is a get_model for a pair that is registered
GetModelOfRegistered ==
    /\ mresp'.op = "get_model"
    /\ mresp'.arg.model_name \in DOMAIN _MODEL_DEFS
    /\ \/ mresp'.arg.version = None
       \/ InList(mresp'.arg.version[1], _MODEL_DEFS[mresp'.arg.model_name].versions)

\* a get_model for a pair whose slot is filled returns the instance of the
\* slot and opens no file; one for a pair whose slot is empty opens the
\* parameter file of the pair, once, and what it returns is in the slot
C11_LoadOnce ==
    GetModelOfRegistered =>
        LET name == mresp'.arg.model_name
            v == ResolvedVersion(name, mresp'.arg.version)
        IN  IF _MODELS_CACHE[name][v] # None
            THEN /\ mresp'.out.raised = "None"
                 /\ mresp'.out.ret = _MODELS_CACHE[name][v]
                 /\ UNCHANGED <<_MODEL_DEFS, _MODELS_CACHE, loads>>
            ELSE /\ Len(loads') = Len(loads) + 1
                 /\ SubSeq(loads', 1, Len(loads)) = loads
                 /\ loads'[Len(loads')][2] = file_name(name, v)
                 /\ mresp'.out.raised = "None" =>
                       /\ mresp'.out.ret # None
                       /\ _MODELS_CACHE'[name][v] = mresp'.out.ret

\* a get_model that found the parameter file of its pair leaves an instance
\* in the slot of the pair
C11_Constructs ==
    GetModelOfRegistered =>
        LET name == mresp'.arg.model_name
            v == ResolvedVersion(name, mresp'.arg.version)
        IN  (loads' # loads /\ loads'[Len(loads')] \in Files) =>
                /\ mresp'.out.raised = "None"
                /\ _MODELS_CACHE'[name][v] # None

\* get_model(name) and get_model(name, default_version) do the same
C11_DefaultVersion ==
    \A name \in DOMAIN _MODEL_DEFS :
        get_model(name, None) = get_model(name, Some(_MODEL_DEFS[name].default_version))

\* What the code keeps of C11: an instance that get_model returned is the one
\* every later get_model of the pair finds in the slot, with no file opened,
\* and omitting the version is passing the default version.
C11_CachedOnReturn == []C11_DefaultVersion /\ [][C11_LoadOnce]_vars

\* C11: for a registered (name, version) the first get_model loads the
\* parameters and constructs the instance, every later get_model of the pair
\* returns the cached instance without loading parameters again, and omitting
\* the version is the same as passing the default version.
C11_LazyLoadOnce == []C11_DefaultVersion /\ [][C11_LoadOnce /\ C11_Constructs]_vars

\* the parameter file of a registered pair was opened a second time
C11_Witness ==
    /\ mresp.op = "get_model"
    /\ Len(loads) = 2
    /\ loads[1] = loads[2]
    /\ loads[1] \in Files
    /\ mresp.out.raised = "TypeError"

\* get_model of a pair whose slot holds an instance returns that instance
C12_Returned ==
    \A name \in DOMAIN _MODELS_CACHE :
        \A v \in DOMAIN _MODELS_CACHE[name] :
            _MODELS_CACHE[name][v] # None =>
                /\ get_model(name, Some(v)).raised = "None"
                /\ get_model(name, Some(v)).ret = _MODELS_CACHE[name][v]

\* the instance of a slot is in the slot after the step
C12_SlotKept(name, v) ==
    /\ name \in DOMAIN _MODELS_CACHE'
    /\ v \in DOMAIN _MODELS_CACHE'[name]
    /\ _MODELS_CACHE'[name][v] = _MODELS_CACHE[name][v]

\* the step is a register_model that registered this name
C12_Reregistered(name) ==
    /\ mresp'.op = "register_model"
    /\ mresp'.out.raised = "None"
    /\ RegisteredName(mresp'.arg) = name
    /\ \A v \in DOMAIN _MODELS_CACHE'[name] : _MODELS_CACHE'[name][v] = None

C12_NoEviction ==
    \A name \in DOMAIN _MODELS_CACHE :
        \A v \in DOMAIN _MODELS_CACHE[name] :
            _MODELS_CACHE[name][v] # None => C12_SlotKept(name, v)

C12_NoEvictionButReregistration ==
    \A name \in DOMAIN _MODELS_CACHE :
        \A v \in DOMAIN _MODELS_CACHE[name] :
            _MODELS_CACHE[name][v] # None =>
                C12_SlotKept(name, v) \/ C12_Reregistered(name)

\* C12 as stated: an instance created for a (name, version) stays cached for
\* the process lifetime: after any sequence of get_model, get_model_def,
\* register_model and set_default_data_dir, get_model of the pair returns the
\* instance created on first use.
C12_Original == []C12_Returned /\ [][C12_NoEviction]_vars

\* C12 amended: an instance created for a (name, version) stays cached, and
\* get_model of the pair returns it, through every get_model, get_model_def
\* and set_default_data_dir and every register_model of another name; a
\* register_model that registers the same name again replaces the definition
\* and empties every slot of that name.
C12_CachedUntilReregistered == []C12_Returned /\ [][C12_NoEvictionButReregistration]_vars

\* the name "fc" was registered again after an instance of it was cached
C12_Witness ==
    /\ mresp.op = "register_model"
    /\ mresp.out.raised = "None"
    /\ RegisteredName(mresp.arg) = "fc"
    /\ \E i \in DOMAIN loads : loads[i] = <<Cwd \o <<"params">>, file_name("fc", "0.2")>>
    /\ \A v \in DOMAIN _MODELS_CACHE["fc"] : _MODELS_CACHE["fc"][v] = None

\* str.lower() on the names of this model
Lower(name) ==
    CASE name = "FC" -> "fc"
      [] name = "LinearLayer" -> "linearlayer"
      [] OTHER -> name

\* the names a caller can write for the registered ones
NamesAsked == ModelNames \cup {Lower(n) : n \in ModelNames}

\* C14: model names are unique and case-normalized: a name that differs from
\* a registered name only in letter case resolves, in get_model_def and in
\* get_model, to the same definition (a constructor FC registered without a
\* name is found as "fc").
C14_CaseNormalized ==
    \A n \in DOMAIN _MODEL_DEFS :
        \A m \in NamesAsked :
            Lower(m) = Lower(n) =>
                /\ get_model_def(m).raised = "None"
                /\ get_model_def(m).ret[1].versions = _MODEL_DEFS[n].versions
                /\ get_model_def(m).ret[1].description = _MODEL_DEFS[n].constructor.__doc__
                /\ get_model(m, None).raised # "ModelNotFound"

\* FC is registered under its class name and "fc" was asked for and not found
C14_Witness ==
    /\ mresp.op = "get_model_def"
    /\ mresp.arg.model_name = "fc"
    /\ mresp.out.raised = "ModelNotFound"
    /\ DOMAIN _MODEL_DEFS = {"FC"}

\* the methods the Model capability asks for
ModelCapability == {"forward", "prepare_input"}

\* C15: register_model accepts only constructors that provide forward and
\* prepare_input, hence get_model can construct an instance of every model
\* registered and evaluate can call prepare_input and forward on it.
C15_RegisteredSatisfyModel ==
    \A name \in DOMAIN _MODEL_DEFS :
        /\ ModelCapability \subseteq _MODEL_DEFS[name].constructor.defines
        /\ \A v \in DOMAIN _MODELS_CACHE[name] :
              _load_parameters(name, v).raised = "None" =>
                  get_model(name, Some(v)).raised = "None"

\* get_model found the parameters of a registered model and could not
\* construct it
C15_Witness ==
    /\ mresp.op = "get_model"
    /\ mresp.out.raised = "TypeError"
    /\ mresp.arg.model_name \in DOMAIN _MODEL_DEFS
    /\ loads # <<>>
    /\ loads[Len(loads)] \in Files

----------------------------------------------------------------------------
(* Properties of get_model under concurrent calls (specification SpecRace). *)

\* thread t has its answer
Answered(t) == threads[t].pc = "done"

\* a call that returned, returned an instance of the constructor registered,
\* built from the parameters of its pair, and the slot of the pair is filled
C13_ReturnsInstance ==
    \A t \in Threads :
        (Answered(t) /\ threads[t].raised = "None") =>
            LET name == threads[t].model_name
                v == threads[t].version
            IN  /\ threads[t].ret # None
                /\ threads[t].ret[1].class = _MODEL_DEFS[name].constructor.__name__
                /\ Some(threads[t].ret[1].parameters) = _load_parameters(name, v).val
                /\ _MODELS_CACHE[name][v] # None

\* a call about to return finds its slot filled
C13_NoEmptySlot ==
    \A t \in Threads :
        threads[t].pc = "return" =>
            _MODELS_CACHE[threads[t].model_name][threads[t].version] # None

\* a call that raised, raised what a call running alone raises
C13_NoFailureOfTheRace ==
    \A t \in Threads :
        (Answered(t) /\ threads[t].raised # "None") =>
            get_model(threads[t].model_name, threads[t].arg).raised = threads[t].raised

\* C13: when several get_model calls for the same uncached (name, version)
\* interleave, each call returns an instance built from the same parameters
\* (it may be constructed twice), the slot ends non-empty, and no call returns
\* an empty slot or fails because of the race.
C13_ConcurrentFirstAccess ==
    C13_ReturnsInstance /\ C13_NoEmptySlot /\ C13_NoFailureOfTheRace

\* two calls for the same pair both loaded and constructed, and returned
C13_Witness ==
    /\ \A t \in Threads : Answered(t) /\ threads[t].raised = "None"
    /\ \A t, u \in Threads :
          /\ threads[t].model_name = threads[u].model_name
          /\ threads[t].version = threads[u].version
    /\ Len(loads) = 2
    /\ loads[1] = loads[2]

----------------------------------------------------------------------------
(* Properties of the evaluation endpoint (specification SpecEval).         *)

\* the last request was an evaluation
Evaluation == mresp.op = "evaluation"

\* the steps of evaluation, in the order the specification gives them
EvaluationSteps == <<"get_model", "b64decode", "prepare_input", "forward">>

\* the bytes the two strings of the last evaluation decode to
PostedContext == b64decode(mresp.arg.data.context)
PostedVector == b64decode(mresp.arg.data.ckks_vector)

\* the two strings are base64
Decodable == PostedContext.raised = "None" /\ PostedVector.raised = "None"

\* the bytes are a context and a vector encrypted under its parameters
Consistent ==
    /\ Len(PostedContext.val) = 2 /\ PostedContext.val[1] = 67
    /\ Len(PostedVector.val) >= 2
    /\ PostedVector.val[1] = 86 + (PostedContext.val[2] \div 4)

\* the context holds the galois keys the evaluation rotates with
HoldsGaloisKeys == PostedContext.val[2] \in {2, 3, 6, 7}

\* the steps ran in order: they are the first steps of EvaluationSteps
C16_InOrder ==
    Evaluation =>
        /\ Len(mresp.out.steps) \in 1..4
        /\ mresp.out.steps = SubSeq(EvaluationSteps, 1, Len(mresp.out.steps))

\* a failure stops the request: the failed step is the last one, and the
\* response carries no output
C16_FailureStops ==
    Evaluation /\ mresp.out.raised # "None" =>
        /\ mresp.out.status_code # 200
        /\ (mresp.out.raised \in {"ModelNotFound", "HTTPException"}
               => Len(mresp.out.steps) = 1)
        /\ (mresp.out.raised = "Error" => Len(mresp.out.steps) = 2)
        /\ (mresp.out.raised \in {"DeserializationError", "InvalidContext"}
               => Len(mresp.out.steps) = 3)

\* forward runs on prepared input only
C16_ForwardAfterPrepare ==
    Evaluation /\ Len(mresp.out.steps) = 4 =>
        Decodable /\ Consistent /\ HoldsGaloisKeys

\* malformed or inconsistent blobs: DeserializationError
C16_Deserialization ==
    Evaluation /\ Len(mresp.out.steps) >= 2 /\ Decodable /\ ~Consistent =>
        /\ mresp.out.raised = "DeserializationError"
        /\ mresp.out.status_code = 418

\* a context without the keys: InvalidContext
C16_InvalidContext ==
    Evaluation /\ Len(mresp.out.steps) >= 2 /\ Decodable /\ Consistent
        /\ ~HoldsGaloisKeys =>
        /\ mresp.out.raised = "InvalidContext"
        /\ mresp.out.status_code = 418

\* C16: evaluation runs model lookup, blob decoding, prepare_input and
\* forward in this order and stops at the first step that fails: forward is
\* not called when prepare_input failed, blobs that are malformed or do not
\* fit each other give DeserializationError, and a context that deserializes
\* but holds no galois keys gives InvalidContext.
C16_EvaluationPipeline ==
    /\ C16_InOrder
    /\ C16_FailureStops
    /\ C16_ForwardAfterPrepare
    /\ C16_Deserialization
    /\ C16_InvalidContext

\* an evaluation found its model, decoded the blobs, and was stopped by
\* prepare_input on a context without galois keys
C16_Witness ==
    /\ Evaluation
    /\ mresp.out.raised = "InvalidContext"
    /\ mresp.out.steps = SubSeq(EvaluationSteps, 1, 3)

\* an evaluation ran the four steps and answered with the output
C16_WitnessForward ==
    Evaluation /\ mresp.out.raised = "None" /\ mresp.out.status_code = 200

\* C17: an arithmetic failure during forward reaches the caller as
\* EvaluationError carrying the cause, a domain-level rejection: an evaluation
\* that called forward answers with the output or with the 418 of an
\* EvaluationError, for every model served.
C17_ForwardFailuresClassified ==
    Evaluation /\ Len(mresp.out.steps) = 4 =>
        \/ mresp.out.raised = "None" /\ mresp.out.status_code = 200
        \/ /\ mresp.out.raised = "EvaluationError"
           /\ mresp.out.status_code = 418
           /\ mresp.out.json.message[2] # <<>>

\* the same, for the models of the package alone
C17_PackageModelsClassified ==
    Evaluation /\ Len(mresp.out.steps) = 4 /\ mresp.arg.model_name # "ConvMNIST" =>
        \/ mresp.out.raised = "None" /\ mresp.out.status_code = 200
        \/ /\ mresp.out.raised = "EvaluationError"
           /\ mresp.out.status_code = 418
           /\ mresp.out.json.message[2] # <<>>

\* the forward of a LinearLayer failed on an input of the wrong size, and
\* the evaluation answered with the EvaluationError
C17_Witness ==
    /\ Evaluation
    /\ mresp.arg.model_name = "fc"
    /\ mresp.out.raised = "EvaluationError"

\* the forward of ConvMNIST failed, and the failure left the handler
C17_WitnessEscaped ==
    /\ Evaluation
    /\ mresp.arg.model_name = "ConvMNIST"
    /\ Len(mresp.out.steps) = 4
    /\ mresp.out.status_code = 500

----------------------------------------------------------------------------
(* Properties of FC.forward (specification SpecForward).                   *)

\* the sum of f(i) for i in S
RECURSIVE Sigma(_, _)
Sigma(f, S) ==
    IF S = {} THEN 0
    ELSE LET i == CHOOSE i \in S : TRUE IN f[i] + Sigma(f, S \ {i})

\* Linear(v) = v * W + b
Linear(v, W, b) ==
    [j \in DOMAIN b |-> Sigma([i \in DOMAIN v |-> v[i] * W[i][j]], DOMAIN v) + b[j]]

\* Square(v), elementwise
Square(v) == [i \in DOMAIN v |-> v[i] * v[i]]

\* Linear3(Square(Linear2(Square(Linear1(x)))))
Reference(self, x) ==
    Linear(Square(Linear(Square(Linear(x, self.w1, self.b1)), self.w2, self.b2)),
           self.w3, self.b3)

\* identity weights and zero biases in the three layers
IdentityLayers(self) ==
    /\ \A w \in {self.w1, self.w2, self.w3} :
          \A i \in DOMAIN w : \A j \in DOMAIN w[i] : w[i][j] = (IF i = j THEN 1 ELSE 0)
    /\ \A b \in {self.b1, self.b2, self.b3} : \A j \in DOMAIN b : b[j] = 0

\* forward was applied to an input of the size of the layers
ForwardApplied ==
    /\ mresp.op = "FC.forward"
    /\ Len(plain(mresp.enc_x)) = Len(mresp.self.w1)

\* C18: FC.forward is Linear3(Square(Linear2(Square(Linear1(x))))) with
\* Linear_i(v) = v * W_i + b_i on every input of the bounded domain, the
\* square following the first and the second layer and not the third; with
\* identity weights and zero biases it is x to the fourth power, elementwise.
C18_ForwardIsReference ==
    ForwardApplied =>
        /\ mresp.out.raised = "None"
        /\ plain(mresp.out.val[1]) = Reference(mresp.self, plain(mresp.enc_x))
        /\ IdentityLayers(mresp.self) =>
              \A i \in DOMAIN plain(mresp.enc_x) :
                 plain(mresp.out.val[1])[i]
                    = plain(mresp.enc_x)[i] * plain(mresp.enc_x)[i]
                      * plain(mresp.enc_x)[i] * plain(mresp.enc_x)[i]

\* forward was applied with layers that are not the identity to an input
\* that tells the composition from its variants
C18_Witness ==
    /\ ForwardApplied
    /\ ~IdentityLayers(mresp.self)
    /\ mresp.self.b3 = <<1, 1>>
    /\ plain(mresp.enc_x) = <<2, 1>>
    /\ mresp.out.raised = "None"

\* forward was applied with identity weights and zero biases to <<2, 1>>
C18_WitnessFourthPower ==
    /\ ForwardApplied
    /\ IdentityLayers(mresp.self)
    /\ plain(mresp.enc_x) = <<2, 1>>
    /\ plain(mresp.out.val[1]) = <<16, 1>>

----------------------------------------------------------------------------
(* Properties of Client.train_logreg (specification SpecTrain).            *)

\* the exceptions that reject an argument
InvalidArgument == {"TypeError", "ValueError"}

\* the calls the claim rejects: epochs that is not positive, X and Y of
\* different lengths, a context without the secret key
C19_Invalid(arg) ==
    \/ arg.epochs.v < 1
    \/ Len(arg.X) # Len(arg.Y)
    \/ arg.context.ser[2] \notin {1, 3, 5, 7}

\* no call with such arguments gets past the checks
C19_NoneInProgress == call # Idle => ~C19_Invalid(call.arg)

\* the step that enters train_logreg with such arguments raises and leaves
\* everything else as it was
C19_Step ==
    call = Idle /\ C19_Invalid(resp'.arg) =>
        /\ resp'.out.raised \in InvalidArgument
        /\ resp'.encrypted = 0
        /\ resp'.requests = <<>>
        /\ call' = Idle
        /\ UNCHANGED <<CONTEXTS, DATASETS, issued, nregs>>

\* C19: train_logreg rejects epochs below 1, len(X) # len(Y) and a context
\* without secret key with an exception for an invalid argument, before it
\* encrypts anything, registers a context or a dataset, or posts to
\* /train-lr: the server state is unchanged.
C19_TrainRejectsInvalid == []C19_NoneInProgress /\ [][C19_Step]_vars

\* a call with a context without secret key, and nothing else wrong, was rejected
C19_Witness ==
    /\ resp.op = "train_logreg"
    /\ resp.arg.context = TenSEALContext(CtxPublic)
    /\ resp.arg.epochs = PyInt(2)
    /\ resp.out.raised = "ValueError"
    /\ resp.requests = <<>>

\* the requests of the train_logreg call under way, or of the last one
Requests == resp.requests

\* the rounds among them
Rounds == {k \in DOMAIN Requests : k > 2}

\* first the context, then the dataset, then rounds, no more than epochs
C20_Shape ==
    /\ Len(Requests) <= 2 + resp.arg.epochs.v
    /\ \A k \in DOMAIN Requests :
          Requests[k].op = (IF k = 1 THEN "register_context"
                            ELSE IF k = 2 THEN "register_dataset" ELSE "train-lr")

\* a request is sent after the one before was answered with success
C20_OneAfterAnother ==
    \A k \in DOMAIN Requests : k < Len(Requests) => Requests[k].status_code = 200

\* every round names the dataset the call registered
C20_OneDataset ==
    \A k \in Rounds : Requests[k].dataset_id = Requests[2].ret[1][2]

\* the first round carries the parameters of the call, the next ones those
\* of the round before plus its updates
C20_Chained ==
    \A k \in Rounds :
        IF k = 3
        THEN Requests[k].weights = resp.arg.weights /\ Requests[k].bias = resp.arg.bias
        ELSE /\ Requests[k].weights =
                   [i \in DOMAIN Requests[k - 1].weights |->
                       Requests[k - 1].weights[i] + Requests[k - 1].answer[1].weights[i]]
             /\ Requests[k].bias =
                   <<Requests[k - 1].bias[1] + Requests[k - 1].answer[1].bias[1]>>

\* a call that returns has sent epochs rounds, and the server has performed
\* two registrations for it
C20_Returned ==
    resp.out.raised = "None" =>
        /\ Len(Requests) = 2 + resp.arg.epochs.v
        /\ nregs = resp.before + 2
        /\ resp.out.ret[1][1] =
              [i \in DOMAIN resp.arg.weights |->
                  Requests[Len(Requests)].weights[i]
                  + Requests[Len(Requests)].answer[1].weights[i]]

\* C20: a train_logreg call with epochs = E registers one context and one
\* dataset, before the first round, and posts E times to /train-lr, each
\* time with the id of that dataset and one request after the other: a round
\* is sent when the updates of the round before were decrypted and added,
\* and carries the parameters they gave.
C20_OneRegistrationThenRounds ==
    resp.op = "train_logreg" =>
        /\ C20_Shape
        /\ C20_OneAfterAnother
        /\ C20_OneDataset
        /\ C20_Chained
        /\ C20_Returned

\* a call with epochs = 2 returned
C20_Witness ==
    /\ resp.op = "train_logreg"
    /\ resp.arg.epochs = PyInt(2)
    /\ resp.out.raised = "None"
    /\ Len(Requests) = 4
    /\ Requests[4].weights # resp.arg.weights

----------------------------------------------------------------------------
(* Properties of the parameters of train_logreg (specification SpecTrain). *)

\* the updates of feature i the rounds up to request k were answered with,
\* added up
RECURSIVE SumOfDeltaWeights(_, _)
SumOfDeltaWeights(k, i) ==
    IF k \notin Rounds THEN 0
    ELSE SumOfDeltaWeights(k - 1, i) + Requests[k].answer[1].weights[i]

\* the same for the bias
RECURSIVE SumOfDeltaBias(_)
SumOfDeltaBias(k) ==
    IF k \notin Rounds THEN 0
    ELSE SumOfDeltaBias(k - 1) + Requests[k].answer[1].bias[1]

\* the parameters the call began with, plus the updates of all its rounds
InitialPlusDeltas ==
    <<[i \in DOMAIN resp.arg.weights |->
          resp.arg.weights[i] + SumOfDeltaWeights(Len(Requests), i)],
      <<resp.arg.bias[1] + SumOfDeltaBias(Len(Requests))>>>>

\* between two rounds the caller holds the initial parameters plus the
\* updates of the rounds so far
C21_BetweenRounds ==
    call.pc = "train_epoch" =>
        /\ Len(Requests) = 2 + call.epoch
        /\ <<call.weights, call.bias>> = InitialPlusDeltas

\* a call that returns, returns the initial parameters plus the updates of
\* its epochs rounds
C21_Returned ==
    resp.op = "train_logreg" /\ resp.out.raised = "None" =>
        /\ Cardinality(Rounds) = resp.arg.epochs.v
        /\ resp.out.ret = Some(InitialPlusDeltas)

\* a round that is answered adds its updates to the parameters, feature by
\* feature
C21_Round ==
    call.pc = "train_epoch" /\ resp'.op = "train_logreg"
    /\ resp'.out.raised \in {"None", "pending"} =>
        LET round == resp'.requests[Len(resp'.requests)]
            after == IF call'.pc = "train_epoch" THEN <<call'.weights, call'.bias>>
                     ELSE resp'.out.ret[1]
        IN  /\ round.weights = call.weights
            /\ round.bias = call.bias
            /\ DOMAIN after[1] = DOMAIN call.weights
            /\ \A i \in DOMAIN call.weights :
                   after[1][i] = call.weights[i] + round.answer[1].weights[i]
            /\ after[2] = <<call.bias[1] + round.answer[1].bias[1]>>

\* C21: after each round of train_logreg the weights are the weights before
\* plus the decrypted weights update, feature by feature, and the bias is the
\* bias before plus the decrypted bias update; the call returns the
\* parameters after the last round, which are the initial ones plus the sum
\* of the updates of its epochs rounds.
C21_ParametersAccumulate ==
    /\ [](C21_BetweenRounds /\ C21_Returned)
    /\ [][C21_Round]_vars

\* a call with epochs = 3 returned parameters that differ from the initial
\* ones in both weights and in the bias
C21_Witness ==
    /\ resp.op = "train_logreg"
    /\ resp.arg.epochs = PyInt(3)
    /\ resp.out.raised = "None"
    /\ Cardinality(Rounds) = 3
    /\ \A i \in DOMAIN resp.arg.weights : resp.out.ret[1][1][i] # resp.arg.weights[i]
    /\ resp.out.ret[1][2] # resp.arg.bias

----------------------------------------------------------------------------
(* Properties of training rounds and batch sizes (specification Spec).     *)

\* the dataset a request to /train-lr names, as it is stored
TrainedOn == get_raw_dataset(resp'.arg.dataset_id)

\* a round on a stored dataset whose batch_size is not 1 fails and answers
\* no update; when the dataset and the parameters load, it is the assertion
\* at the top of train_lr that fails, whatever the entries are
C22_RoundFails ==
    /\ resp'.op = "train_round"
    /\ TrainedOn.raised = "None"
    /\ TrainedOn.val[1][4] # 1
    => /\ resp'.out.status_code = 500
       /\ DOMAIN resp'.out.json = {"detail"}
       /\ load_dataset(resp'.arg.dataset_id).raised = "None"
              => resp'.out.json.detail = "AssertionError"

\* a registration of a dataset that carries a whole number other than 1 as
\* batch_size and good base64
C22_OtherBatchSize ==
    /\ resp.op = "register_dataset"
    /\ resp.via = "http"
    /\ resp.arg.batch_size # None
    /\ resp.arg.batch_size[1].type = "int"
    /\ resp.arg.batch_size[1].v # 1
    /\ decode_pairs(resp.arg.X, resp.arg.Y).raised = "None"

\* such a registration is answered 200 and the dataset is stored with it;
\* the same holds of the client's register_dataset with a batch_size above 1
C22_Stored ==
    /\ C22_OtherBatchSize =>
          /\ resp.out.status_code = 200
          /\ resp.reg # None
          /\ resp.reg[1].val[4] = resp.arg.batch_size[1].v
          /\ DATASETS[resp.reg[1].id] = resp.reg[1].val
    /\ resp.op = "register_dataset" /\ resp.via = "client"
       /\ resp.arg.batch_size = PyInt(2) /\ resp.out.raised = "None" =>
          /\ resp.reg # None
          /\ DATASETS[resp.reg[1].id][4] = 2

\* C22: train_round on a dataset whose batch_size is not 1 fails, before any
\* entry is computed on, and returns no deltas; register_dataset accepts and
\* stores such datasets all the same.
C22_BatchSizeOneOnly == []C22_Stored /\ [][C22_RoundFails]_vars

\* a dataset stored with batch_size 0 and entries of two numbers was trained
\* on with one weight: the answer is that of the assertion, not of an entry
C22_Witness ==
    /\ resp.op = "train_round"
    /\ resp.arg.weights = b64encode(WeightsShort)
    /\ resp.arg.dataset_id \in DOMAIN DATASETS
    /\ DATASETS[resp.arg.dataset_id][4] = 0
    /\ load_dataset(resp.arg.dataset_id).raised = "None"
    /\ resp.out.status_code = 500
    /\ resp.out.json.detail = "AssertionError"

\* a dataset with batch_size 1 and the same entries: the entries are reached
C22_WitnessEntries ==
    /\ resp.op = "train_round"
    /\ resp.arg.weights = b64encode(WeightsShort)
    /\ resp.arg.dataset_id \in DOMAIN DATASETS
    /\ DATASETS[resp.arg.dataset_id][4] = 1
    /\ resp.out.status_code = 500
    /\ resp.out.json.detail = "ValueError"

----------------------------------------------------------------------------
(* Properties of one training round (specification SpecRound).  Numbers    *)
(* are compared as fractions: a / b = c / d when a * d = c * b.             *)

\* the dataset a round was asked to train on, and the parameters it was sent
RoundDataset == DATASETS[resp.arg.dataset_id]
RoundWeights == plain(CKKSVector(b64decode(resp.arg.weights).val))
RoundBias == plain(CKKSVector(b64decode(resp.arg.bias).val))[1]

\* the number of examples, the features of example k and its label
RoundN == Len(RoundDataset[2])
FeaturesOf(k) == plain(CKKSVector(RoundDataset[2][k]))
LabelOf(k) == plain(CKKSVector(RoundDataset[3][k]))[1]

\* 1000 * p(z) for p(z) = 0.5 + 0.197 * z - 0.004 * z^3
Sigmoid1000(z) == 500 + z * (197 - 4 * z * z)

\* dot(x, weights) over the features from i on
RECURSIVE DotFrom(_, _)
DotFrom(k, i) ==
    IF i > Len(RoundWeights) THEN 0
    ELSE FeaturesOf(k)[i] * RoundWeights[i] + DotFrom(k, i + 1)

\* 1000 * err of example k, err = p(dot(x, weights) + bias) - y
Err1000(k) == Sigmoid1000(DotFrom(k, 1) + RoundBias) - 1000 * LabelOf(k)

\* the sums over the examples up to k of x[i] * err and of err, times 1000
RECURSIVE SumXErr1000(_, _)
SumXErr1000(k, i) ==
    IF k = 0 THEN 0 ELSE SumXErr1000(k - 1, i) + FeaturesOf(k)[i] * Err1000(k)

RECURSIVE SumErr1000(_)
SumErr1000(k) == IF k = 0 THEN 0 ELSE SumErr1000(k - 1) + Err1000(k)

\* the fraction d is (-1 / N) * sum1000 / 1000
IsMinusMeanOf(d, sum1000) ==
    /\ d.den > 0
    /\ d.num * (1000 * RoundN) = (0 - sum1000) * d.den

\* C23: on a dataset of N >= 1 examples a round returns
\* delta_weights = (-1 / N) * sum of x * err and delta_bias = (-1 / N) * sum
\* of err over the examples, each taken once, with
\* err = p(dot(x, weights) + bias) - y and p(z) = 0.5 + 0.197 z - 0.004 z^3;
\* nothing but the weights, the bias and the dataset enters the result.
C23_RoundIsGradientStep ==
    resp.op = "train_round" /\ RoundN >= 1 =>
        /\ resp.out.status_code = 200
        /\ DOMAIN resp.out.json.weights_update.num = DOMAIN RoundWeights
        /\ \A i \in DOMAIN RoundWeights :
              IsMinusMeanOf([num |-> resp.out.json.weights_update.num[i],
                             den |-> resp.out.json.weights_update.den],
                            SumXErr1000(RoundN, i))
        /\ IsMinusMeanOf([num |-> resp.out.json.bias_update.num[1],
                          den |-> resp.out.json.bias_update.den],
                         SumErr1000(RoundN))

\* a round on two different examples, with weights and a bias that make the
\* cubic term count, answered deltas that are not zero
C23_Witness ==
    /\ resp.op = "train_round"
    /\ resp.out.status_code = 200
    /\ RoundN = 2
    /\ FeaturesOf(1) # FeaturesOf(2)
    /\ RoundWeights = <<1, 2>>
    /\ RoundBias = 1
    /\ \A i \in 1..2 : resp.out.json.weights_update.num[i] # 0
    /\ resp.out.json.bias_update.num[1] # 0
    /\ Cardinality(DOMAIN DATASETS) = 2

----------------------------------------------------------------------------
(* Termination of train_logreg (specification SpecTrainUp).                 *)

\* a call whose arguments passed the checks is under way
TrainUnderWay == call.pc \in {"train_register_context", "train_register_dataset",
                              "train_epoch"}

\* the call returned, after epochs rounds that train_round answered with
\* updates
TrainDone ==
    /\ call = Idle
    /\ resp.op = "train_logreg"
    /\ resp.out.raised = "None"
    /\ Cardinality(Rounds) = resp.arg.epochs.v
    /\ \A k \in Rounds : Requests[k].status_code = 200 /\ Requests[k].answer # None

\* while the call is under way it has sent no more rounds than epochs
C24_NoExtraRound ==
    TrainUnderWay => Cardinality(Rounds) <= call.arg.epochs.v

\* the steps the server computes are the steps of a caller whose request is
\* answered with success: no operation of the server fails in such a call
C24_ServerAnswers ==
    /\ TrainRegisterDatasetUp <=> TrainDatasetAnswered
    /\ TrainEpochUp <=> TrainEpochAnswered

\* C24: a train_logreg call with valid arguments, against a reachable server
\* whose operations do not fail, reaches Done: it returns after exactly
\* epochs rounds, each answered by train_round with its deltas.
C24_TrainTerminates ==
    /\ TrainUnderWay ~> TrainDone
    /\ []C24_NoExtraRound
    /\ [][C24_ServerAnswers]_vars

\* a call with epochs = 3 is done
C24_Witness ==
    /\ TrainDone
    /\ resp.arg.epochs = PyInt(3)
    /\ Len(Requests) = 5

----------------------------------------------------------------------------
(* Properties of two train_logreg calls at once (specification SpecPair).  *)

\* what the call of caller c returns when it runs alone: its parameters plus
\* the updates train_lr computes from them and its own dataset
Alone(c) ==
    PairFinal(PairArgs[c],
              train_lr(ckks_vector(PairArgs[c].context, PairArgs[c].weights),
                       ckks_vector(PairArgs[c].context, PairArgs[c].bias),
                       train_logreg_encrypt(PairArgs[c]).enc_X,
                       train_logreg_encrypt(PairArgs[c]).enc_Y, 1).val[1])

\* the call of caller c has returned what it returns alone
SameAsAlone(c) ==
    call[c].pc = "done" => resp[c] = [raised |-> "None", ret |-> Some(Alone(c))]

\* the context and the dataset caller c has registered are in the registry
\* as c registered them
Registered(c, kind) == kind \in DOMAIN call[c]

Untouched(c) ==
    /\ Registered(c, "context_id") =>
          /\ call[c].context_id \in DOMAIN CONTEXTS
          /\ CONTEXTS[call[c].context_id] = serialized(PairArgs[c].context)
    /\ Registered(c, "dataset_id") =>
          /\ call[c].dataset_id \in DOMAIN DATASETS
          /\ DATASETS[call[c].dataset_id] =
              <<call[c].context_id,
                [i \in {1} |-> serialized(train_logreg_encrypt(PairArgs[c]).enc_X[i])],
                [i \in {1} |-> serialized(train_logreg_encrypt(PairArgs[c]).enc_Y[i])],
                1>>

\* a registration of one call was given the identifier of the other call's
\* context, or of its dataset
Collision ==
    \/ /\ Registered(1, "context_id") /\ Registered(2, "context_id")
       /\ call[1].context_id = call[2].context_id
    \/ /\ Registered(1, "dataset_id") /\ Registered(2, "dataset_id")
       /\ call[1].dataset_id = call[2].dataset_id

C25_WitnessOtherDataset ==
    \E c \in Callers :
        /\ call[c].pc = "done"
        /\ resp[c].raised = "None"
        /\ resp[c].ret # Some(Alone(c))

----------------------------------------------------------------------------
(* Properties of train_logreg when the server cannot be reached            *)
(* (specification SpecTrain).                                              *)

\* the last request of the call found no server
Unreached ==
    /\ resp.op = "train_logreg"
    /\ Len(Requests) > 0
    /\ Requests[Len(Requests)].status_code = 0

\* the registrations of the call signal ConnectionError when the server is
\* unreachable, and the call ends there
C26_RegistrationsSignal ==
    Unreached /\ Requests[Len(Requests)].op # "train-lr" =>
        resp.out.raised = "ConnectionError" /\ call = Idle

\* C26: every client operation that contacts the server signals
\* ConnectionError when the server is unreachable; here, the requests of
\* train_logreg, its rounds included.
C26_UnreachableIsConnectionError ==
    Unreached => resp.out.raised = "ConnectionError" /\ call = Idle

\* a round found no server after the registrations had succeeded
C26_Witness ==
    /\ Unreached
    /\ Requests[Len(Requests)].op = "train-lr"
    /\ Len(Requests) = 4
    /\ resp.out.raised = "requests.exceptions.ConnectionError"

----------------------------------------------------------------------------
(* Properties of the errors a caller of evaluate sees (specification       *)
(* SpecEval).                                                              *)

\* the causes of failure the specification tells apart
DomainCauses == {"ModelNotFound", "DeserializationError", "InvalidContext",
                 "EvaluationError"}

\* the exception Client.evaluate raises on the last response
RaisedByEvaluate == _handle_error_response(mresp.out)

\* for every request that fails now with one of these causes, the cause and
\* the exception Client.evaluate raises on the response
EvaluationFailures ==
    {[cause |-> r.raised, kind |-> _handle_error_response(r)] :
        r \in {e \in {evaluation(data, model_name, version) :
                         data \in EvalBodies, model_name \in EvalNames,
                         version \in EvalVersions} :
                  e.status_code # 200 /\ e.raised \in DomainCauses}}

\* C27: a failure reaches the caller with an error kind that identifies its
\* cause: unknown model, DeserializationError, InvalidContext and
\* EvaluationError are told apart by the kind, so no request that fails for
\* another cause raises the exception the last request raised.
C27_KindIdentifiesCause ==
    Evaluation /\ mresp.out.raised \in DomainCauses =>
        \A f \in EvaluationFailures :
            f.kind = RaisedByEvaluate => f.cause = mresp.out.raised

\* every response that is no success makes the caller raise
C27_FailuresRaise ==
    Evaluation /\ mresp.out.status_code # 200 =>
        RaisedByEvaluate \in {"Answer418", "ServerError", "ResourceNotFound",
                              "RuntimeError"}

\* a context without galois keys made the caller raise Answer418, which is
\* what a request for a model that does not exist raises
C27_Witness ==
    /\ Evaluation
    /\ mresp.out.raised = "InvalidContext"
    /\ RaisedByEvaluate = "Answer418"
    /\ [cause |-> "ModelNotFound", kind |-> "Answer418"] \in EvaluationFailures

----------------------------------------------------------------------------
(* Properties of a dataset whose context was never registered              *)
(* (specification Spec).                                                   *)

\* the last request registered a dataset, with good base64, under a context
\* id that the server holds no context for
C28_UnknownContextId ==
    /\ resp.op = "register_dataset"
    /\ resp.via = "http"
    /\ Dataset(resp.arg).raised = "None"
    /\ decode_pairs(resp.arg.X, resp.arg.Y).raised = "None"
    /\ resp.arg.context_id \notin DOMAIN CONTEXTS

\* such a registration is answered 200 with the id of the stored dataset,
\* and get_dataset answers 200 with what was stored
C28_StoredAndRead ==
    C28_UnknownContextId =>
        /\ resp.out.status_code = 200
        /\ resp.reg # None
        /\ resp.out.json.dataset_id = resp.reg[1].id
        /\ resp.reg[1].id \in DOMAIN DATASETS
        /\ DATASETS[resp.reg[1].id][1] = resp.arg.context_id
        /\ get_dataset(resp.reg[1].id).status_code = 200
        /\ get_dataset(resp.reg[1].id).json.context_id = resp.arg.context_id
        /\ get_dataset(resp.reg[1].id).DATASETS = DATASETS

\* the stored dataset that the next request names has no context
C28_NoContextFor(dataset_id) ==
    /\ dataset_id \in DOMAIN DATASETS
    /\ DATASETS[dataset_id][1] \notin DOMAIN CONTEXTS

\* a round on it fails when the dataset is loaded, answers no update and
\* leaves the registry as it was; a caller who reads it is answered 200
C28_OnlyTheLoadFails ==
    /\ resp'.op = "train_round" /\ C28_NoContextFor(resp'.arg.dataset_id) =>
          /\ resp'.out.status_code = 500
          /\ DOMAIN resp'.out.json = {"detail"}
          /\ resp'.out.json.detail = "KeyError"
          /\ load_dataset(resp'.arg.dataset_id).raised = "KeyError"
          /\ CONTEXTS' = CONTEXTS
          /\ DATASETS' = DATASETS
    /\ resp'.op = "get_dataset" /\ C28_NoContextFor(resp'.arg)
       /\ resp'.out.status_code # 0 =>
          /\ resp'.out.status_code = 200
          /\ DATASETS' = DATASETS

\* C28: register_dataset does not check that the context id exists: with an
\* id that was never registered the dataset is stored, get_dataset on it
\* succeeds, and only the load of the dataset for a training round fails,
\* with no deltas and the registry unchanged.
C28_ContextIdUnchecked == []C28_StoredAndRead /\ [][C28_OnlyTheLoadFails]_vars

\* a round was asked on a stored dataset whose context id names no context,
\* and was answered 500 for the KeyError
C28_Witness ==
    /\ resp.op = "train_round"
    /\ C28_NoContextFor(resp.arg.dataset_id)
    /\ CONTEXTS = << >>
    /\ resp.out.status_code = 500
    /\ resp.out.json.detail = "KeyError"

\* a caller read such a dataset and was answered 200
C28_WitnessRead ==
    /\ resp.op = "get_dataset"
    /\ C28_NoContextFor(resp.arg)
    /\ resp.out.status_code = 200

----------------------------------------------------------------------------
(* Properties of the keys the server holds after a train call              *)
(* (specification SpecTrain).                                              *)

\* the context the server loads from what it stores under id holds the
\* secret key
StoredWithSecretKey(id) ==
    /\ context_from(CONTEXTS[id]).raised = "None"
    /\ has_secret_key(context_from(CONTEXTS[id]).val[1])

\* C29: in any train call no context that contains the secret key is sent
\* to or stored by the server: the server holds only the key material it
\* needs to compute on ciphertexts.
C29_SecretKeyStaysWithCaller ==
    \A id \in DOMAIN CONTEXTS : ~StoredWithSecretKey(id)

\* every train call that has registered its context has stored the secret
\* key with it: train_logreg refuses a context without one
C29_EveryTrainCallSendsKey ==
    call.pc = "train_register_dataset" =>
        /\ call.context_id \in DOMAIN CONTEXTS
        /\ CONTEXTS[call.context_id] = serialized(call.arg.context)
        /\ StoredWithSecretKey(call.context_id)

\* a train call registered its context, and the server stores the caller's
\* context as it is, with the secret key
C29_Witness ==
    /\ call.pc = "train_register_dataset"
    /\ has_secret_key(call.arg.context)
    /\ CONTEXTS[call.context_id] = CtxPrivate
    /\ StoredWithSecretKey(call.context_id)

----------------------------------------------------------------------------
(* Properties of a dataset with no entry (specification Spec).             *)

\* the last call was Client.register_dataset with no entry, and the server
\* answered its last request
C30_NoEntryRegistration ==
    /\ resp.op = "register_dataset"
    /\ resp.via = "client"
    /\ resp.arg.enc_X = <<>>
    /\ resp.arg.enc_Y = <<>>
    /\ resp.out.raised # "pending"
    /\ resp.out.status_code # 0

\* such a call returns, and the server stores the dataset with no entry
C30_Registered ==
    C30_NoEntryRegistration =>
        /\ resp.out.raised = "None"
        /\ resp.out.status_code = 200
        /\ resp.reg # None
        /\ resp.reg[1].kind = "dataset"
        /\ resp.reg[1].id \in DOMAIN DATASETS
        /\ DATASETS[resp.reg[1].id][2] = <<>>
        /\ DATASETS[resp.reg[1].id][3] = <<>>

\* the stored dataset has no entry
C30_NoEntry(dataset_id) ==
    /\ dataset_id \in DOMAIN DATASETS
    /\ DATASETS[dataset_id][2] = <<>>
    /\ DATASETS[dataset_id][3] = <<>>

\* a round on it fails, answers no update and leaves the registry as it was;
\* when the dataset loads and its batch_size is 1, the failure is the
\* division by the number of entries
C30_RoundFails ==
    resp'.op = "train_round" /\ C30_NoEntry(resp'.arg.dataset_id) =>
        /\ resp'.out.status_code = 500
        /\ DOMAIN resp'.out.json = {"detail"}
        /\ CONTEXTS' = CONTEXTS
        /\ DATASETS' = DATASETS
        /\ load_dataset(resp'.arg.dataset_id).raised = "None"
           /\ DATASETS[resp'.arg.dataset_id][4] = 1
              => resp'.out.json.detail = "ZeroDivisionError"

\* C30: a dataset with zero entries can be registered, and train_round on it
\* fails with an error, the division by N = 0 of the scaling, and returns no
\* zero-valued deltas; the failure leaves the registry unchanged.
C30_EmptyDataset == []C30_Registered /\ [][C30_RoundFails]_vars

\* a round was asked on a stored dataset with no entry, whose context the
\* server holds, and was answered 500 for the ZeroDivisionError
C30_Witness ==
    /\ resp.op = "train_round"
    /\ C30_NoEntry(resp.arg.dataset_id)
    /\ DATASETS[resp.arg.dataset_id][1] \in DOMAIN CONTEXTS
    /\ resp.out.status_code = 500
    /\ resp.out.json.detail = "ZeroDivisionError"

=============================================================================
